---- MODULE Spec2Model ----
(***************************************************************************)
(* The PixiJS tool: its viewport controller and publish-subscribe state    *)
(* container (controls/ViewportController.js, core/StateManager.js), its   *)
(* geometry functions and renderers (utils/geometry.js,                    *)
(* graphics/FactoryRenderer.js), its animation and UI controllers and the  *)
(* PixiTool that holds them (index.js).                                    *)
(*                                                                         *)
(* JavaScript numbers are modelled as exact rationals <<n, d>> in lowest   *)
(* terms with d > 0, so that === on numbers is equality of the pairs.      *)
(***************************************************************************)
EXTENDS Integers, Sequences, FiniteSets, TLC

(***************************************************************************)
(* Bounds of the model.                                                    *)
(***************************************************************************)
\* number of operations in one run
MaxOps == 4

\* length of the subscriber list
MaxSubs == 3

\* number of input events and calls in one run of the tool with its listeners
MaxEvents == 3

\* length of the point lists handed to the geometry functions
MaxPoints == 4

(***************************************************************************)
(* Rational arithmetic.                                                    *)
(***************************************************************************)
Abs(n) == IF n < 0 THEN -n ELSE n

RECURSIVE GCD(_, _)
GCD(a, b) == IF b = 0 THEN a ELSE GCD(b, a % b)

\* the rational n/d (d # 0) in lowest terms with a positive denominator
Q(n, d) ==
    LET g == GCD(Abs(n), Abs(d))
        s == IF d < 0 THEN -1 ELSE 1
    IN  <<(s * n) \div g, (s * d) \div g>>

Int2Q(n) == <<n, 1>>

QAdd(a, b) ==
    LET g == GCD(a[2], b[2])
    IN  Q(a[1] * (b[2] \div g) + b[1] * (a[2] \div g), (a[2] \div g) * b[2])

QNeg(a) == <<-a[1], a[2]>>

QSub(a, b) == QAdd(a, QNeg(b))

\* cross-cancelled before multiplying, to keep the intermediate values small
QMul(a, b) ==
    LET g1 == GCD(Abs(a[1]), b[2])
        g2 == GCD(Abs(b[1]), a[2])
    IN  Q((a[1] \div g1) * (b[1] \div g2), (a[2] \div g2) * (b[2] \div g1))

\* a / b for b # 0
QDiv(a, b) == QMul(a, Q(b[2], b[1]))

QLt(a, b) == a[1] * b[2] < b[1] * a[2]

QLe(a, b) == a[1] * b[2] <= b[1] * a[2]

\* Math.min and Math.max on two numbers
MathMin(a, b) == IF QLt(b, a) THEN b ELSE a

MathMax(a, b) == IF QLt(a, b) THEN b ELSE a

(***************************************************************************)
(* VIEWPORT_CONFIG (utils/constants.js).                                   *)
(***************************************************************************)
MIN_SCALE == Q(1, 10)

MAX_SCALE == Q(5, 1)

DEFAULT_SCALE == Q(1, 1)

ZOOM_IN_FACTOR == Q(12, 10)

ZOOM_OUT_FACTOR == Q(8, 10)

WHEEL_ZOOM_IN_FACTOR == Q(11, 10)

WHEEL_ZOOM_OUT_FACTOR == Q(9, 10)

(***************************************************************************)
(* Canvas geometry (core/PixiApplication.js): the canvas is created with   *)
(* the container's size, 800 x 600 when the container reports none, and    *)
(* fills its container, so its client rectangle has the same size.         *)
(***************************************************************************)
CanvasWidth == 800

CanvasHeight == 600

\* canvas.getBoundingClientRect(): the canvas sits at the page's default margin
CanvasRect == [left |-> 8, top |-> 8, width |-> CanvasWidth, height |-> CanvasHeight]

(***************************************************************************)
(* StateManager (core/StateManager.js).                                    *)
(***************************************************************************)
\* F(v) with v computed once: a value a handler holds in a const and uses
\* in its later statements
Then(v, F(_)) == CHOOSE out \in { F(x) : x \in {v} } : TRUE

\* { ...a, ...b }: the fields of b override those of a
Spread(a, b) ==
    [k \in (DOMAIN a) \cup (DOMAIN b) |-> IF k \in DOMAIN b THEN b[k] ELSE a[k]]

Viewport(x, y, scale) == [x |-> x, y |-> y, scale |-> scale]

Point(x, y) == [x |-> x, y |-> y]

\* this.state as the constructor leaves it (the fields the controllers use);
\* "none" stands for null.  The fields that hold references to display
\* objects (currentGraphic, centerDot, geometricCenterDot) are kept with
\* the objects themselves, in the scene.  Colours are not modelled.
InitialState ==
    [ currentShape        |-> "none",
      isRotating          |-> FALSE,
      viewport            |-> Viewport(Int2Q(0), Int2Q(0), Int2Q(1)),
      isDragging          |-> FALSE,
      lastPointerPosition |-> Point(0, 0),
      pbsMoveable         |-> FALSE,
      pbsGraphics         |-> <<>>,
      showingCenter          |-> FALSE,
      showingGeometricCenter |-> FALSE ]

\* the callbacks handed to subscribe():
\*   "ui"      UIController.subscribeToStateChanges: refreshes the buttons
\*   "logger"  a callback that only reads the two snapshots
\*   "thrower" a callback that throws
\*   "once"    a callback that calls its own unsubscribe closure
\*   "remover" a callback that calls the unsubscribe closure of "logger"
\*   "nester"  a callback that calls setState({ isRotating: false }) when the
\*             state it is handed has isRotating true
Callbacks == {"ui", "logger", "thrower", "once", "remover", "nester"}

RECURSIVE IndexOf(_, _, _)
\* Array.prototype.indexOf from position i (1-based; 0 when absent)
IndexOf(arr, v, i) ==
    IF i > Len(arr) THEN 0
    ELSE IF arr[i] = v THEN i
    ELSE IndexOf(arr, v, i + 1)

\* Array.prototype.splice(index, 1)
Splice(arr, i) == SubSeq(arr, 1, i - 1) \o SubSeq(arr, i + 1, Len(arr))

\* the closure returned by subscribe(callback)
Unsubscribe(subs, callback) ==
    LET index == IndexOf(subs, callback, 1)
    IN  IF index > 0 THEN Splice(subs, index) ELSE subs

\* subscribe with unshift in place of push
SubscribeFront(subs, callback) == <<callback>> \o subs

\* subscribe(callback): this.subscribers.push(callback)
Subscribe(subs, callback) == Append(subs, callback)

RECURSIVE ForEach(_, _, _, _, _, _)
\* setState(partial) called by a callback: the merge, the notification and
\* the record of the call
SetStateWithin(sm, partial) ==
    LET oldState == sm.state
        merged == Spread(sm.state, partial)
    IN  Then(ForEach(1, Len(sm.subscribers), [sm EXCEPT !.state = merged],
                     merged, oldState, <<>>),
             LAMBDA r :
                 [sm |-> r.sm,
                  escaped |-> r.escaped,
                  calls |-> << [partial |-> partial, oldState |-> oldState,
                                newState |-> merged, registered |-> sm.subscribers,
                                invoked |-> r.invoked] >>])

\* what the body of a callback does to the container, whether it throws, and
\* the setState calls it makes; sm is [state, subscribers]
CallbackBody(callback, sm, newState, oldState) ==
    CASE callback = "thrower" -> [sm |-> sm, threw |-> TRUE, nested |-> <<>>]
      [] callback = "once" ->
            [sm |-> [sm EXCEPT !.subscribers = Unsubscribe(@, "once")],
             threw |-> FALSE, nested |-> <<>>]
      [] callback = "remover" ->
            [sm |-> [sm EXCEPT !.subscribers = Unsubscribe(@, "logger")],
             threw |-> FALSE, nested |-> <<>>]
      [] callback = "nester" /\ newState.isRotating ->
            Then(SetStateWithin(sm, [isRotating |-> FALSE]),
                 LAMBDA inner : [sm |-> inner.sm, threw |-> inner.escaped,
                                 nested |-> inner.calls])
      [] OTHER -> [sm |-> sm, threw |-> FALSE, nested |-> <<>>]

\* try { callback(newState, oldState) } catch (error) { console.error(...) }
TryCallback(callback, sm, newState, oldState) ==
    Then(CallbackBody(callback, sm, newState, oldState),
         LAMBDA r : [sm |-> r.sm, caught |-> r.threw, escaped |-> FALSE,
                     nested |-> r.nested])

\* this.subscribers.forEach(...): the indices below the length read at the
\* start are visited in order; an index the array no longer has is skipped
ForEach(k, len, sm, newState, oldState, invoked) ==
    IF k > len THEN [sm |-> sm, invoked |-> invoked, escaped |-> FALSE]
    ELSE IF k > Len(sm.subscribers)
    THEN ForEach(k + 1, len, sm, newState, oldState, invoked)
    ELSE Then(TryCallback(sm.subscribers[k], sm, newState, oldState),
              LAMBDA r :
                  Then(Append(invoked,
                              [callback |-> sm.subscribers[k],
                               newState |-> newState, oldState |-> oldState,
                               caught |-> r.caught, nested |-> r.nested]),
                       LAMBDA inv :
                           IF r.escaped
                           THEN [sm |-> r.sm, invoked |-> inv, escaped |-> TRUE]
                           ELSE ForEach(k + 1, len, r.sm, newState, oldState, inv)))

NotifySubscribers(sm, newState, oldState) ==
    ForEach(1, Len(sm.subscribers), sm, newState, oldState, <<>>)

\* setState(newState): the container afterwards and the record of the call
SetState(sm, partial) ==
    LET oldState == sm.state
        merged == Spread(sm.state, partial)
        r == NotifySubscribers([sm EXCEPT !.state = merged], merged, oldState)
    IN  [sm |-> r.sm,
         escaped |-> r.escaped,
         calls |-> << [partial |-> partial, oldState |-> oldState,
                       newState |-> merged, registered |-> sm.subscribers,
                       invoked |-> r.invoked] >>]

\* set(key, value)
Set(sm, key, value) == SetState(sm, [k \in {key} |-> value])

\* updateViewport(viewport)
UpdateViewport(sm, viewport) ==
    SetState(sm, [viewport |-> Spread(sm.state.viewport, viewport)])

\* setDragging(isDragging, position = null); NoPosition stands for null
NoPosition == Point(-1, -1)

SetDragging(sm, isDragging, position) ==
    IF position # NoPosition
    THEN SetState(sm, [isDragging |-> isDragging, lastPointerPosition |-> position])
    ELSE SetState(sm, [isDragging |-> isDragging])

\* toggleRotation()
ToggleRotation(sm) == SetState(sm, [isRotating |-> ~sm.state.isRotating])

\* reset()
ResetState(sm) ==
    SetState(sm, [ currentShape        |-> "none",
                   isRotating          |-> FALSE,
                   viewport            |-> Viewport(Int2Q(0), Int2Q(0), Int2Q(1)),
                   isDragging          |-> FALSE,
                   lastPointerPosition |-> Point(0, 0),
                   pbsMoveable         |-> FALSE,
                   pbsGraphics         |-> <<>>,
                   showingCenter          |-> FALSE,
                   showingGeometricCenter |-> FALSE ])

(***************************************************************************)
(* ViewportController (controls/ViewportController.js).  A handler maps    *)
(* the container sm and the stage transform to the container, the stage    *)
(* and the setState calls it made.                                         *)
(***************************************************************************)
Outcome(r, stage) ==
    [sm |-> r.sm, escaped |-> r.escaped, calls |-> r.calls, stage |-> stage]

\* an early return: nothing is touched
Untouched(sm, stage) ==
    [sm |-> sm, escaped |-> FALSE, calls |-> <<>>, stage |-> stage]

\* updateViewport(): the stage takes the viewport of the container
StageOf(sm) ==
    Viewport(sm.state.viewport.x, sm.state.viewport.y, sm.state.viewport.scale)

\* OffsetAbout without the conversion to world coordinates
OffsetAboutScreen(pivot, offset, scale, newScale) ==
    QSub(pivot, QMul(QSub(pivot, offset), newScale))

\* new offset along one axis: pivot - ((pivot - offset) / scale) * newScale
OffsetAbout(pivot, offset, scale, newScale) ==
    LET world == QDiv(QSub(pivot, offset), scale)
    IN  QSub(pivot, QMul(world, newScale))

\* the mouse position of a wheel event in canvas coordinates
MouseX(clientX) ==
    QMul(Int2Q(clientX - CanvasRect.left), Q(CanvasWidth, CanvasRect.width))

MouseY(clientY) ==
    QMul(Int2Q(clientY - CanvasRect.top), Q(CanvasHeight, CanvasRect.height))

\* the clamped scale a wheel notch asks for
WheelScale(scale, deltaY) ==
    LET scaleFactor == IF deltaY > 0 THEN WHEEL_ZOOM_OUT_FACTOR
                       ELSE WHEEL_ZOOM_IN_FACTOR
    IN  MathMax(MIN_SCALE, MathMin(MAX_SCALE, QMul(scale, scaleFactor)))

\* handleWheel(event)
HandleWheel(sm, stage, clientX, clientY, deltaY) ==
    LET viewport == sm.state.viewport
        mouseX == MouseX(clientX)
        mouseY == MouseY(clientY)
        newScale == WheelScale(viewport.scale, deltaY)
        newViewport ==
            [scale |-> newScale,
             x |-> OffsetAbout(mouseX, viewport.x, viewport.scale, newScale),
             y |-> OffsetAbout(mouseY, viewport.y, viewport.scale, newScale)]
        r == UpdateViewport(sm, newViewport)
    IN  IF newScale = viewport.scale THEN Untouched(sm, stage)
        ELSE Outcome(r, StageOf(r.sm))

IsOnCanvas(clientX, clientY) ==
    /\ clientX >= CanvasRect.left
    /\ clientX <= CanvasRect.left + CanvasRect.width
    /\ clientY >= CanvasRect.top
    /\ clientY <= CanvasRect.top + CanvasRect.height

\* handlePointerDown(event)
HandlePointerDown(sm, stage, clientX, clientY) ==
    IF ~IsOnCanvas(clientX, clientY) THEN Untouched(sm, stage)
    ELSE Outcome(SetDragging(sm, TRUE, Point(clientX, clientY)), stage)

\* handlePointerMove that keeps the position of the pointer-down
HandlePointerMoveFromStart(sm, stage, clientX, clientY) ==
    LET state == sm.state
        deltaX == clientX - state.lastPointerPosition.x
        deltaY == clientY - state.lastPointerPosition.y
        newViewport == [x |-> QAdd(state.viewport.x, Int2Q(deltaX)),
                        y |-> QAdd(state.viewport.y, Int2Q(deltaY))]
        r1 == UpdateViewport(sm, newViewport)
    IN  IF ~state.isDragging THEN Untouched(sm, stage)
        ELSE Outcome(r1, StageOf(r1.sm))

\* handlePointerMove(event)
HandlePointerMove(sm, stage, clientX, clientY) ==
    LET state == sm.state
        deltaX == clientX - state.lastPointerPosition.x
        deltaY == clientY - state.lastPointerPosition.y
        newViewport == [x |-> QAdd(state.viewport.x, Int2Q(deltaX)),
                        y |-> QAdd(state.viewport.y, Int2Q(deltaY))]
        r1 == UpdateViewport(sm, newViewport)
        r2 == IF r1.escaped THEN r1
              ELSE LET d == SetDragging(r1.sm, TRUE, Point(clientX, clientY))
                   IN  [sm |-> d.sm, escaped |-> d.escaped,
                        calls |-> r1.calls \o d.calls]
    IN  IF ~state.isDragging THEN Untouched(sm, stage)
        ELSE Outcome(r2, StageOf(r2.sm))

\* handlePointerUp that leaves the dragging flag alone
HandlePointerUpIdle(sm, stage) == Untouched(sm, stage)

\* handlePointerUp(event)
HandlePointerUp(sm, stage) == Outcome(SetDragging(sm, FALSE, NoPosition), stage)

\* setupEventListeners(): each handler is registered for the pointer event
\* and for the mouse event of the same kind, so that an event the browser
\* reports as both (twice) runs the handler H two times
Delivered(twice, sm, stage, H(_, _)) ==
    LET first == H(sm, stage)
        second == H(first.sm, first.stage)
    IN  IF twice
        THEN [second EXCEPT !.calls = first.calls \o second.calls,
                            !.escaped = first.escaped \/ second.escaped]
        ELSE first

\* ZoomInScale without the upper clamp
ZoomInScaleUnclamped(scale) == QMul(scale, ZOOM_IN_FACTOR)

\* the scale zoomIn() moves to
ZoomInScale(scale) == MathMin(MAX_SCALE, QMul(scale, ZOOM_IN_FACTOR))

\* zoomIn() without its early return
ZoomInAlways(sm, stage) ==
    LET viewport == sm.state.viewport
        centerX == Q(CanvasWidth, 2)
        centerY == Q(CanvasHeight, 2)
        newScale == ZoomInScale(viewport.scale)
        newViewport ==
            [scale |-> newScale,
             x |-> OffsetAbout(centerX, viewport.x, viewport.scale, newScale),
             y |-> OffsetAbout(centerY, viewport.y, viewport.scale, newScale)]
        r == UpdateViewport(sm, newViewport)
    IN  Outcome(r, StageOf(r.sm))

\* zoomIn()
ZoomIn(sm, stage) ==
    LET viewport == sm.state.viewport
        centerX == Q(CanvasWidth, 2)
        centerY == Q(CanvasHeight, 2)
        newScale == ZoomInScale(viewport.scale)
        newViewport ==
            [scale |-> newScale,
             x |-> OffsetAbout(centerX, viewport.x, viewport.scale, newScale),
             y |-> OffsetAbout(centerY, viewport.y, viewport.scale, newScale)]
        r == UpdateViewport(sm, newViewport)
    IN  IF newScale = viewport.scale THEN Untouched(sm, stage)
        ELSE Outcome(r, StageOf(r.sm))

\* the scale zoomOut() moves to
ZoomOutScale(scale) == MathMax(MIN_SCALE, QMul(scale, ZOOM_OUT_FACTOR))

\* zoomOut()
ZoomOut(sm, stage) ==
    LET viewport == sm.state.viewport
        centerX == Q(CanvasWidth, 2)
        centerY == Q(CanvasHeight, 2)
        newScale == ZoomOutScale(viewport.scale)
        newViewport ==
            [scale |-> newScale,
             x |-> OffsetAbout(centerX, viewport.x, viewport.scale, newScale),
             y |-> OffsetAbout(centerY, viewport.y, viewport.scale, newScale)]
        r == UpdateViewport(sm, newViewport)
    IN  IF newScale = viewport.scale THEN Untouched(sm, stage)
        ELSE Outcome(r, StageOf(r.sm))

\* ResetViewport that restores the offset only
ResetViewportOffset == [x |-> Int2Q(0), y |-> Int2Q(0)]

\* the viewport reset() asks for
ResetViewport == [x |-> Int2Q(0), y |-> Int2Q(0), scale |-> DEFAULT_SCALE]

\* reset()
Reset(sm, stage) ==
    LET r == UpdateViewport(sm, ResetViewport)
    IN  Outcome(r, StageOf(r.sm))

\* pan that keeps the offset inside the canvas
PanClamped(sm, stage, deltaX, deltaY) ==
    LET viewport == sm.state.viewport
        newViewport ==
            [x |-> MathMax(Int2Q(0), MathMin(Int2Q(CanvasWidth), QAdd(viewport.x, deltaX))),
             y |-> MathMax(Int2Q(0), MathMin(Int2Q(CanvasHeight), QAdd(viewport.y, deltaY)))]
        r == UpdateViewport(sm, newViewport)
    IN  Outcome(r, StageOf(r.sm))

\* pan(deltaX, deltaY)
Pan(sm, stage, deltaX, deltaY) ==
    LET viewport == sm.state.viewport
        newViewport == [x |-> QAdd(viewport.x, deltaX),
                        y |-> QAdd(viewport.y, deltaY)]
        r == UpdateViewport(sm, newViewport)
    IN  Outcome(r, StageOf(r.sm))

\* center = null of zoomTo
NoCenter == <<>>

\* the centre zoomTo(scale, center) zooms about
ZoomToCenter(center) ==
    IF center # NoCenter THEN center
    ELSE <<Q(CanvasWidth, 2), Q(CanvasHeight, 2)>>

\* zoomTo with the offset computed from the requested scale, not the clamped one
ZoomToRequested(sm, stage, scale, center) ==
    LET targetScale == MathMax(MIN_SCALE, MathMin(MAX_SCALE, scale))
        centerX == ZoomToCenter(center)[1]
        centerY == ZoomToCenter(center)[2]
        viewport == sm.state.viewport
        newViewport ==
            [scale |-> targetScale,
             x |-> OffsetAbout(centerX, viewport.x, viewport.scale, scale),
             y |-> OffsetAbout(centerY, viewport.y, viewport.scale, scale)]
        r == UpdateViewport(sm, newViewport)
    IN  Outcome(r, StageOf(r.sm))

\* zoomTo(scale, center = null)
ZoomTo(sm, stage, scale, center) ==
    LET targetScale == MathMax(MIN_SCALE, MathMin(MAX_SCALE, scale))
        centerX == ZoomToCenter(center)[1]
        centerY == ZoomToCenter(center)[2]
        viewport == sm.state.viewport
        newViewport ==
            [scale |-> targetScale,
             x |-> OffsetAbout(centerX, viewport.x, viewport.scale, targetScale),
             y |-> OffsetAbout(centerY, viewport.y, viewport.scale, targetScale)]
        r == UpdateViewport(sm, newViewport)
    IN  Outcome(r, StageOf(r.sm))

\* fitToContent(bounds, padding) for bounds of non-zero width and height
FitToContent(sm, stage, bounds, padding) ==
    LET canvasWidth == Int2Q(CanvasWidth)
        canvasHeight == Int2Q(CanvasHeight)
        room == QSub(Int2Q(1), QMul(padding, Int2Q(2)))
        scaleX == QDiv(QMul(canvasWidth, room), bounds.width)
        scaleY == QDiv(QMul(canvasHeight, room), bounds.height)
        scale == MathMin(scaleX, scaleY)
        centerX == QDiv(canvasWidth, Int2Q(2))
        centerY == QDiv(canvasHeight, Int2Q(2))
        contentCenterX == QAdd(bounds.x, QDiv(bounds.width, Int2Q(2)))
        contentCenterY == QAdd(bounds.y, QDiv(bounds.height, Int2Q(2)))
        newViewport ==
            [scale |-> MathMax(MIN_SCALE, MathMin(MAX_SCALE, scale)),
             x |-> QSub(centerX, QMul(contentCenterX, scale)),
             y |-> QSub(centerY, QMul(contentCenterY, scale))]
        r == UpdateViewport(sm, newViewport)
    IN  Outcome(r, StageOf(r.sm))

(***************************************************************************)
(* The original PixiApp (main.js), before the refactoring: the viewport,   *)
(* the dragging flag and the last pointer position are fields of the one   *)
(* class.  A handler maps these fields, app, to what it leaves of them.    *)
(***************************************************************************)
\* the fields as the constructor leaves them
PixiApp ==
    [isDragging |-> FALSE,
     lastPointerPosition |-> Point(0, 0),
     viewport |-> [x |-> Int2Q(0), y |-> Int2Q(0), scale |-> Int2Q(1),
                   minScale |-> Q(1, 10), maxScale |-> Int2Q(5)]]

\* PixiApp.handleWheel(event)
PixiAppHandleWheel(app, clientX, clientY, deltaY) ==
    LET viewport == app.viewport
        scaleX == Q(CanvasWidth, CanvasRect.width)
        scaleY == Q(CanvasHeight, CanvasRect.height)
        mouseX == QMul(Int2Q(clientX - CanvasRect.left), scaleX)
        mouseY == QMul(Int2Q(clientY - CanvasRect.top), scaleY)
        scaleFactor == IF deltaY > 0 THEN Q(9, 10) ELSE Q(11, 10)
        newScale == MathMax(viewport.minScale,
                            MathMin(viewport.maxScale,
                                    QMul(viewport.scale, scaleFactor)))
        worldX == QDiv(QSub(mouseX, viewport.x), viewport.scale)
        worldY == QDiv(QSub(mouseY, viewport.y), viewport.scale)
    IN  IF newScale = viewport.scale THEN app
        ELSE [app EXCEPT !.viewport.scale = newScale,
                         !.viewport.x = QSub(mouseX, QMul(worldX, newScale)),
                         !.viewport.y = QSub(mouseY, QMul(worldY, newScale))]

\* PixiApp.handlePointerDown(event)
PixiAppHandlePointerDown(app, clientX, clientY) ==
    LET isOnCanvas == /\ clientX >= CanvasRect.left
                      /\ clientX <= CanvasRect.left + CanvasRect.width
                      /\ clientY >= CanvasRect.top
                      /\ clientY <= CanvasRect.top + CanvasRect.height
    IN  IF ~isOnCanvas THEN app
        ELSE [app EXCEPT !.isDragging = TRUE,
                         !.lastPointerPosition = Point(clientX, clientY)]

\* PixiApp.handlePointerMove(event)
PixiAppHandlePointerMove(app, clientX, clientY) ==
    LET deltaX == clientX - app.lastPointerPosition.x
        deltaY == clientY - app.lastPointerPosition.y
    IN  IF ~app.isDragging THEN app
        ELSE [app EXCEPT !.viewport.x = QAdd(@, Int2Q(deltaX)),
                         !.viewport.y = QAdd(@, Int2Q(deltaY)),
                         !.lastPointerPosition = Point(clientX, clientY)]

\* PixiApp.handlePointerUp(event)
PixiAppHandlePointerUp(app) == [app EXCEPT !.isDragging = FALSE]

\* PixiApp.resetViewport()
PixiAppResetViewport(app) ==
    [app EXCEPT !.viewport.x = Int2Q(0), !.viewport.y = Int2Q(0),
                !.viewport.scale = Int2Q(1)]

\* PixiApp.zoomIn()
PixiAppZoomIn(app) ==
    LET viewport == app.viewport
        centerX == Q(CanvasWidth, 2)
        centerY == Q(CanvasHeight, 2)
        scaleFactor == Q(12, 10)
        newScale == MathMin(viewport.maxScale, QMul(viewport.scale, scaleFactor))
        worldX == QDiv(QSub(centerX, viewport.x), viewport.scale)
        worldY == QDiv(QSub(centerY, viewport.y), viewport.scale)
    IN  IF newScale = viewport.scale THEN app
        ELSE [app EXCEPT !.viewport.scale = newScale,
                         !.viewport.x = QSub(centerX, QMul(worldX, newScale)),
                         !.viewport.y = QSub(centerY, QMul(worldY, newScale))]

\* PixiApp.zoomOut()
PixiAppZoomOut(app) ==
    LET viewport == app.viewport
        centerX == Q(CanvasWidth, 2)
        centerY == Q(CanvasHeight, 2)
        scaleFactor == Q(8, 10)
        newScale == MathMax(viewport.minScale, QMul(viewport.scale, scaleFactor))
        worldX == QDiv(QSub(centerX, viewport.x), viewport.scale)
        worldY == QDiv(QSub(centerY, viewport.y), viewport.scale)
    IN  IF newScale = viewport.scale THEN app
        ELSE [app EXCEPT !.viewport.scale = newScale,
                         !.viewport.x = QSub(centerX, QMul(worldX, newScale)),
                         !.viewport.y = QSub(centerY, QMul(worldY, newScale))]

(***************************************************************************)
(* Geometry (utils/geometry.js).  A list of points is a sequence of        *)
(* Point records with rational coordinates.  A call either throws or       *)
(* returns a point.                                                        *)
(***************************************************************************)
Thrown(message) == [threw |-> TRUE, message |-> message]

Returned(x, y) == [threw |-> FALSE, x |-> x, y |-> y]

QPoint(x, y) == Point(Int2Q(x), Int2Q(y))

\* GRAPHICS_CONFIG.DEFAULT_POLYGON_POINTS
DEFAULT_POLYGON_POINTS ==
    << QPoint(50, 10), QPoint(90, 30), QPoint(80, 70),
       QPoint(40, 90), QPoint(10, 60), QPoint(20, 20) >>

\* GRAPHICS_CONFIG.FACTORY_POINTS
FACTORY_POINTS ==
    << QPoint(50, 50), QPoint(150, 50), QPoint(150, 100), QPoint(120, 100),
       QPoint(120, 150), QPoint(180, 150), QPoint(180, 170), QPoint(50, 170),
       QPoint(50, 150), QPoint(20, 150), QPoint(20, 100), QPoint(10, 100),
       QPoint(10, 30), QPoint(60, 30), QPoint(60, 50), QPoint(165, 20),
       QPoint(185, 20), QPoint(185, 70), QPoint(165, 70) >>

\* Math.abs(a) < 1e-10 for a rational a = n / d, that is |n| * 10^10 < d,
\* computed in two steps of 10^5; d is below 2^31, so |n| >= 10000 gives FALSE
AbsBelowEpsilon(a) ==
    \/ a[1] = 0
    \/ /\ Abs(a[1]) < 10000
       /\ Abs(a[1]) * 100000 < (a[2] + 99999) \div 100000

\* TRUE for every v.  It makes TLC compute v where the test stands, so that the
\* sums of a loop are numbers at the end of each round and not expressions
\* carried into the next one.
Computed(v) == v = v

RECURSIVE ShoelaceOpen(_, _, _)
\* the loop of calculatePolygonCenter without the edge from the last point back
\* to the first
ShoelaceOpen(points, i, acc) ==
    IF i >= Len(points) THEN acc
    ELSE LET j == i + 1
             cross == QSub(QMul(points[i].x, points[j].y),
                           QMul(points[j].x, points[i].y))
             next == [area    |-> QAdd(acc.area, cross),
                      centerX |-> QAdd(acc.centerX,
                                       QMul(QAdd(points[i].x, points[j].x), cross)),
                      centerY |-> QAdd(acc.centerY,
                                       QMul(QAdd(points[i].y, points[j].y), cross))]
         IN  IF Computed(next) THEN ShoelaceOpen(points, i + 1, next) ELSE next

RECURSIVE Shoelace(_, _, _)
\* the loop of calculatePolygonCenter from index i (1-based) on; acc holds
\* area, centerX and centerY
Shoelace(points, i, acc) ==
    IF i > Len(points) THEN acc
    ELSE LET j == (i % Len(points)) + 1
             cross == QSub(QMul(points[i].x, points[j].y),
                           QMul(points[j].x, points[i].y))
             next == [area    |-> QAdd(acc.area, cross),
                      centerX |-> QAdd(acc.centerX,
                                       QMul(QAdd(points[i].x, points[j].x), cross)),
                      centerY |-> QAdd(acc.centerY,
                                       QMul(QAdd(points[i].y, points[j].y), cross))]
         IN  IF Computed(next) THEN Shoelace(points, i + 1, next) ELSE next

\* area = area / 2 after the loop
ShoelaceArea(points) ==
    QDiv(Shoelace(points, 1, [area |-> Int2Q(0), centerX |-> Int2Q(0),
                              centerY |-> Int2Q(0)]).area, Int2Q(2))

RECURSIVE ReduceX(_, _, _)
\* points.reduce((sum, p) => sum + p.x, 0) from index i on
ReduceX(points, i, sum) ==
    IF i > Len(points) THEN sum
    ELSE LET next == QAdd(sum, points[i].x)
         IN  IF Computed(next) THEN ReduceX(points, i + 1, next) ELSE next

RECURSIVE ReduceY(_, _, _)
\* points.reduce((sum, p) => sum + p.y, 0) from index i on
ReduceY(points, i, sum) ==
    IF i > Len(points) THEN sum
    ELSE LET next == QAdd(sum, points[i].y)
         IN  IF Computed(next) THEN ReduceY(points, i + 1, next) ELSE next

\* calculatePolygonCenter that asks for 2 points only
CalculatePolygonCenterOfTwo(points) ==
    LET sums == Shoelace(points, 1, [area |-> Int2Q(0), centerX |-> Int2Q(0),
                                     centerY |-> Int2Q(0)])
        area == ShoelaceArea(points)
    IN  IF Len(points) < 2 THEN Thrown("at least 3 points")
        ELSE IF AbsBelowEpsilon(area)
        THEN Returned(QDiv(ReduceX(points, 1, Int2Q(0)), Int2Q(Len(points))),
                      QDiv(ReduceY(points, 1, Int2Q(0)), Int2Q(Len(points))))
        ELSE Returned(QDiv(sums.centerX, QMul(Int2Q(6), area)),
                      QDiv(sums.centerY, QMul(Int2Q(6), area)))

\* calculatePolygonCenter that falls back to the first point
CalculatePolygonCenterFirst(points) ==
    LET sums == Shoelace(points, 1, [area |-> Int2Q(0), centerX |-> Int2Q(0),
                                     centerY |-> Int2Q(0)])
        area == ShoelaceArea(points)
    IN  IF Len(points) < 3 THEN Thrown("at least 3 points")
        ELSE IF AbsBelowEpsilon(area)
        THEN Returned(points[1].x, points[1].y)
        ELSE Returned(QDiv(sums.centerX, QMul(Int2Q(6), area)),
                      QDiv(sums.centerY, QMul(Int2Q(6), area)))

\* calculatePolygonCenter(points)
CalculatePolygonCenter(points) ==
    LET sums == Shoelace(points, 1, [area |-> Int2Q(0), centerX |-> Int2Q(0),
                                     centerY |-> Int2Q(0)])
        area == ShoelaceArea(points)
    IN  IF Len(points) < 3 THEN Thrown("at least 3 points")
        ELSE IF AbsBelowEpsilon(area)
        THEN Returned(QDiv(ReduceX(points, 1, Int2Q(0)), Int2Q(Len(points))),
                      QDiv(ReduceY(points, 1, Int2Q(0)), Int2Q(Len(points))))
        ELSE Returned(QDiv(sums.centerX, QMul(Int2Q(6), area)),
                      QDiv(sums.centerY, QMul(Int2Q(6), area)))

RECURSIVE Sums(_, _, _)
\* the loop of calculateGeometricCenter from index i on; acc holds sumX, sumY
Sums(points, i, acc) ==
    IF i > Len(points) THEN acc
    ELSE LET next == [sumX |-> QAdd(acc.sumX, points[i].x),
                      sumY |-> QAdd(acc.sumY, points[i].y)]
         IN  IF Computed(next) THEN Sums(points, i + 1, next) ELSE next

\* calculateGeometricCenter that returns the sums undivided
CalculateGeometricCenterSums(points) ==
    LET sums == Sums(points, 1, [sumX |-> Int2Q(0), sumY |-> Int2Q(0)])
    IN  IF Len(points) = 0 THEN Thrown("no points")
        ELSE Returned(sums.sumX, sums.sumY)

\* calculateGeometricCenter(points)
CalculateGeometricCenter(points) ==
    LET sums == Sums(points, 1, [sumX |-> Int2Q(0), sumY |-> Int2Q(0)])
    IN  IF Len(points) = 0 THEN Thrown("no points")
        ELSE Returned(QDiv(sums.sumX, Int2Q(Len(points))),
                      QDiv(sums.sumY, Int2Q(Len(points))))

(***************************************************************************)
(* Renderers (graphics/PolygonRenderer.js, graphics/FactoryRenderer.js)    *)
(* and AnimationController.  A display object is a record of its           *)
(* transform, the bounds of what is drawn in it (box, in its own           *)
(* coordinates) and whether it is a child of the stage.                    *)
(***************************************************************************)
STROKE_WIDTH == 2

SCALE_FACTOR == Q(3, 2)

CONTAINER_SCALE_RATIO == Q(9, 10)

DEFAULT_ROTATION_SPEED == Q(5, 100)

\* null where a display object is expected
NoGraphic == [kind |-> "none"]

Graphic(kind, x, y, scale, box) ==
    [kind |-> kind, x |-> x, y |-> y, scale |-> scale, rotation |-> Int2Q(0),
     box |-> box, onStage |-> FALSE]

Box(width, height) == [width |-> width, height |-> height]

\* a rectangle by its edges
Extent(minX, minY, maxX, maxY) ==
    [minX |-> minX, minY |-> minY, maxX |-> maxX, maxY |-> maxY]

\* the rectangle that holds both a and b
UnionExtent(a, b) ==
    Extent(MathMin(a.minX, b.minX), MathMin(a.minY, b.minY),
           MathMax(a.maxX, b.maxX), MathMax(a.maxY, b.maxY))

BoxOf(e) == Box(QSub(e.maxX, e.minX), QSub(e.maxY, e.minY))

\* the least and the greatest coordinate f ("x" or "y") of a list of points
Least(points, f) ==
    CHOOSE v \in {points[i][f] : i \in 1..Len(points)} :
        \A i \in 1..Len(points) : QLe(v, points[i][f])

Greatest(points, f) ==
    CHOOSE v \in {points[i][f] : i \in 1..Len(points)} :
        \A i \in 1..Len(points) : QLe(points[i][f], v)

\* the bounds of the closed path through points with a stroke of
\* STROKE_WIDTH, half of it on either side of the path
OutlineExtent(points) ==
    Extent(QSub(Least(points, "x"), Q(STROKE_WIDTH, 2)),
           QSub(Least(points, "y"), Q(STROKE_WIDTH, 2)),
           QAdd(Greatest(points, "x"), Q(STROKE_WIDTH, 2)),
           QAdd(Greatest(points, "y"), Q(STROKE_WIDTH, 2)))

\* drawFactoryDetails: the bounds of its four rectangles, stroked 1 wide, from
\* rect(15, 60, 30, 30) on the left to rect(170, 20, 10, 50) on the right and
\* at the top, and down to rect(80, 120, 50, 25)
DETAILS_EXTENT == Extent(Q(29, 2), Q(39, 2), Q(361, 2), Q(291, 2))

\* the bounds of the four PBS units of GRAPHICS_CONFIG.PBS_DATA: from the
\* square of side 8 at (20, 70) to the square of side 7 at (175, 60), and from
\* that square down to the circle of radius 6 at (120, 130)
PBS_EXTENT == Extent(Int2Q(16), Q(113, 2), Q(357, 2), Int2Q(136))

\* drawFactory(graphics, points, ...) and the PBS units added to the graphic:
\* the bounds of what the factory holds.  Fewer than 3 points are logged and
\* nothing is drawn, so that the PBS units are all there is.
DrawFactory(points) ==
    IF Len(points) < 3 THEN BoxOf(PBS_EXTENT)
    ELSE BoxOf(UnionExtent(UnionExtent(OutlineExtent(points), DETAILS_EXTENT),
                           PBS_EXTENT))

\* drawPolygon(graphics, points, ...): the bounds of what is drawn
DrawPolygon(points) == BoxOf(OutlineExtent(points))

\* graphic.getBounds() of an unrotated graphic: its bounds in the coordinates
\* of the canvas, that is under its own scale and, when it is a child of the
\* stage, the scale of the stage
GetBounds(graphic, stage) ==
    LET worldScale == IF graphic.onStage THEN QMul(graphic.scale, stage.scale)
                      ELSE graphic.scale
    IN  Box(QMul(graphic.box.width, worldScale),
            QMul(graphic.box.height, worldScale))

\* FactoryRenderer.scaleAndCenter(graphic, containerRatio)
ScaleAndCenter(graphic, screen, stage, containerRatio) ==
    LET bounds == GetBounds(graphic, stage)
        targetWidth == QMul(screen.width, containerRatio)
        targetHeight == QMul(screen.height, containerRatio)
        scaleX == QDiv(targetWidth, bounds.width)
        scaleY == QDiv(targetHeight, bounds.height)
        scale == MathMin(scaleX, scaleY)
    IN  [graphic EXCEPT !.scale = scale,
                        !.x = QDiv(screen.width, Int2Q(2)),
                        !.y = QDiv(screen.height, Int2Q(2))]

\* FactoryRenderer.create({ points }): what it throws and the graphic it returns
CreateFactory(points, screen, stage) ==
    IF CalculateGeometricCenter(points).threw
    THEN [thrown |-> "Error", graphic |-> NoGraphic]
    ELSE Then(Graphic("factory", Int2Q(0), Int2Q(0), Int2Q(1), DrawFactory(points)),
              LAMBDA factory :
                  [thrown |-> "none",
                   graphic |-> ScaleAndCenter(factory, screen, stage,
                                              CONTAINER_SCALE_RATIO)])

\* PolygonRenderer.create(points): what it throws and the graphic it returns
CreatePolygon(points, screen) ==
    IF CalculatePolygonCenter(points).threw
    THEN [thrown |-> "Error", graphic |-> NoGraphic]
    ELSE [thrown |-> "none",
          graphic |-> Graphic("polygon", QDiv(screen.width, Int2Q(2)),
                              QDiv(screen.height, Int2Q(2)), SCALE_FACTOR,
                              DrawPolygon(points))]

\* PolygonRenderer.reset(graphic, points, color)
ResetPolygon(graphic, screen) ==
    [graphic EXCEPT !.rotation = Int2Q(0),
                    !.x = QDiv(screen.width, Int2Q(2)),
                    !.y = QDiv(screen.height, Int2Q(2)),
                    !.scale = SCALE_FACTOR]

\* FactoryRenderer.reset(factory)
ResetFactory(graphic, screen, stage) ==
    ScaleAndCenter([graphic EXCEPT !.rotation = Int2Q(0)], screen, stage,
                   CONTAINER_SCALE_RATIO)

\* null where a centre marker is expected
NoDot == [shown |-> FALSE]

\* a centre marker placed on the graphic
Dot(graphic) ==
    [shown |-> TRUE, x |-> graphic.x, y |-> graphic.y, rotation |-> Int2Q(0)]

\* dot.rotation = rotation for a marker that exists
Follow(dot, rotation) ==
    IF dot # NoDot THEN [dot EXCEPT !.rotation = rotation] ELSE dot

\* updateRotation that turns the graphic only
UpdateRotationAlone(scene) ==
    [scene EXCEPT !.graphic.rotation = QAdd(@, DEFAULT_ROTATION_SPEED)]

\* updateRotation(graphic, centerDot, geometricCenterDot); scene holds the three
UpdateRotation(scene) ==
    LET rotation == QAdd(scene.graphic.rotation, DEFAULT_ROTATION_SPEED)
    IN  [scene EXCEPT !.graphic.rotation = rotation,
                      !.centerDot = Follow(@, rotation),
                      !.geometricCenterDot = Follow(@, rotation)]

\* animate(): one frame of the ticker
Animate(state, scene) ==
    IF state.isRotating /\ scene.graphic # NoGraphic THEN UpdateRotation(scene)
    ELSE scene

(***************************************************************************)
(* UIController (ui/UIController.js) as PixiTool.init wires it.  A handler  *)
(* maps the world w, a record of the container sm, the stage transform and *)
(* the scene, to the world it leaves and the exception that reached its    *)
(* caller ("none" when it returned).  dom is the set of the ids of the     *)
(* elements the document has.                                              *)
(***************************************************************************)
\* app.screen: the size the application was created with.  Nothing resizes
\* the renderer afterwards (see HandleResize).
Screen == [width |-> Int2Q(CanvasWidth), height |-> Int2Q(CanvasHeight)]

Buttons ==
    {"create-factory-btn", "rotate-btn", "color-btn", "center-btn",
     "factory-center-btn"}

\* no child of the stage is out of the state's reach
NoOrphans == [graphic |-> 0, centerDot |-> 0, geometricCenterDot |-> 0]

\* the objects state.currentGraphic, state.centerDot and
\* state.geometricCenterDot refer to, and of each kind the number of the
\* children of app.stage that the state refers to no longer
Scene(graphic, centerDot, geometricCenterDot) ==
    [graphic |-> graphic, centerDot |-> centerDot,
     geometricCenterDot |-> geometricCenterDot, orphans |-> NoOrphans]

Modules(sm, stage, scene) == [sm |-> sm, stage |-> stage, scene |-> scene]

Done(w) == [w |-> w, thrown |-> "none"]

Threw(w, error) == [w |-> w, thrown |-> error]

\* GraphicsFactory.addToStage(graphic)
AddToStage(graphic) ==
    IF graphic # NoGraphic THEN [graphic EXCEPT !.onStage = TRUE] ELSE graphic

\* GraphicsFactory.removeFromStage(graphic)
RemoveFromStage(graphic) ==
    IF graphic # NoGraphic /\ graphic.onStage
    THEN [graphic EXCEPT !.onStage = FALSE] ELSE graphic

\* stateManager.setCurrentShape(shapeType, graphic): a graphic that was
\* state.currentGraphic and is still a child of the stage stays there
SetCurrentShape(w, shapeType, graphic) ==
    [w EXCEPT !.sm = SetState(@, [currentShape |-> shapeType]).sm,
              !.scene.graphic = graphic,
              !.scene.orphans.graphic =
                  IF /\ w.scene.graphic # NoGraphic
                     /\ w.scene.graphic.onStage
                     /\ w.scene.graphic # graphic
                  THEN @ + 1 ELSE @]

\* graphicsFactory.removeFromStage(state.currentGraphic)
RemoveCurrentGraphic(w) == [w EXCEPT !.scene.graphic = RemoveFromStage(@)]

\* updateButtonVisibility(shapeType): the style of an element that is not
\* there cannot be written
UpdateButtonVisibility(w, dom, shapeType) ==
    IF {"center-btn", "factory-center-btn", "color-btn"} \subseteq dom
    THEN Done(w) ELSE Threw(w, "TypeError")

\* switchToPolygon()
SwitchToPolygon(w, dom) ==
    LET state == w.sm.state
        removed == RemoveCurrentGraphic(w)
        shown == IF state.currentShape = "polygon" /\ w.scene.graphic # NoGraphic
                 THEN [removed EXCEPT !.scene.graphic = AddToStage(@)]
                 ELSE removed
    IN  Then(IF state.currentShape = "polygon" /\ w.scene.graphic # NoGraphic
             THEN shown.scene.graphic
             ELSE AddToStage(CreatePolygon(DEFAULT_POLYGON_POINTS, Screen).graphic),
             LAMBDA polygon :
                 UpdateButtonVisibility(
                     [SetCurrentShape(shown, "polygon", polygon) EXCEPT
                         !.sm = Set(@, "pbsGraphics", <<>>).sm],
                     dom, "polygon"))

\* switchToFactory() that leaves the graphic it replaces on the stage
SwitchToFactoryBeside(w, dom) ==
    Then(AddToStage(CreateFactory(FACTORY_POINTS, Screen, w.stage).graphic),
         LAMBDA factory :
             UpdateButtonVisibility(SetCurrentShape(w, "factory", factory),
                                    dom, "factory"))

\* switchToFactory()
SwitchToFactory(w, dom) ==
    Then(AddToStage(CreateFactory(FACTORY_POINTS, Screen, w.stage).graphic),
         LAMBDA factory :
             UpdateButtonVisibility(
                 SetCurrentShape(RemoveCurrentGraphic(w), "factory", factory),
                 dom, "factory"))

\* a marker on the stage
Shown(dot) == dot # NoDot

\* showCenter()
ShowCenter(w) ==
    IF w.scene.graphic = NoGraphic THEN w
    ELSE [w EXCEPT !.sm = SetState(@, [showingCenter |-> TRUE]).sm,
                   !.scene.centerDot = Dot(w.scene.graphic),
                   !.scene.orphans.centerDot =
                       IF Shown(w.scene.centerDot) THEN @ + 1 ELSE @]

\* hideCenter()
HideCenter(w) ==
    IF Shown(w.scene.centerDot)
    THEN [w EXCEPT !.sm = SetState(@, [showingCenter |-> FALSE]).sm,
                   !.scene.centerDot = NoDot]
    ELSE w

\* toggleCenter()
ToggleCenter(w) ==
    IF w.sm.state.showingCenter THEN HideCenter(w) ELSE ShowCenter(w)

\* hideFactoryGeometricCenter()
HideFactoryGeometricCenter(w) ==
    IF Shown(w.scene.geometricCenterDot)
    THEN [w EXCEPT !.sm = SetState(@, [showingGeometricCenter |-> FALSE]).sm,
                   !.scene.geometricCenterDot = NoDot]
    ELSE w

\* showFactoryGeometricCenter()
ShowFactoryGeometricCenter(w) ==
    IF w.sm.state.currentShape # "factory" THEN w
    ELSE LET hidden == HideFactoryGeometricCenter(w)
         IN  [hidden EXCEPT
                !.sm = SetState(@, [showingGeometricCenter |-> TRUE]).sm,
                !.scene.geometricCenterDot = Dot(w.scene.graphic),
                !.scene.orphans.geometricCenterDot =
                    IF Shown(hidden.scene.geometricCenterDot) THEN @ + 1 ELSE @]

\* toggleFactoryCenterType()
ToggleFactoryCenterType(w) ==
    IF w.sm.state.currentShape # "factory" THEN w
    ELSE IF w.sm.state.showingGeometricCenter THEN HideFactoryGeometricCenter(w)
    ELSE ShowFactoryGeometricCenter(w)

\* AnimationController.stopAll()
StopAll(w) == [w EXCEPT !.sm = SetState(@, [isRotating |-> FALSE]).sm]

\* AnimationController.toggleRotation(): stopRotation(target) or
\* startRotation(target)
AnimationToggleRotation(w) ==
    IF w.scene.graphic = NoGraphic THEN w
    ELSE IF w.sm.state.isRotating
    THEN [w EXCEPT !.sm = SetState(@, [isRotating |-> FALSE]).sm]
    ELSE [w EXCEPT !.sm = SetState(@, [isRotating |-> TRUE]).sm]

\* the graphic of reset(recreate) after the markers are hidden and the
\* animations stopped: a new factory, or the graphic reset in place
ResetGraphic(w, shape, recreate) ==
    IF shape = "factory" /\ recreate
    THEN SetCurrentShape(RemoveCurrentGraphic(w), "factory",
             AddToStage(CreateFactory(FACTORY_POINTS, Screen, w.stage).graphic))
    ELSE IF shape = "polygon"
    THEN [w EXCEPT !.scene.graphic = ResetPolygon(@, Screen)]
    ELSE IF shape = "factory"
    THEN [w EXCEPT !.scene.graphic = ResetFactory(@, Screen, w.stage)]
    ELSE w

\* reset(recreate = true); the viewport is reset last, after the graphic
UIReset(w, dom, recreate) ==
    IF w.scene.graphic = NoGraphic THEN Done(w)
    ELSE Then(StopAll(HideFactoryGeometricCenter(HideCenter(w))),
              LAMBDA stopped :
                  Then(ResetGraphic(stopped, w.sm.state.currentShape, recreate),
                       LAMBDA redone :
                           Then(Reset(redone.sm, redone.stage),
                                LAMBDA r : Done([redone EXCEPT !.sm = r.sm,
                                                               !.stage = r.stage]))))

\* toggleFactory(): the switch, the text of create-factory-btn, reset(false)
ToggleFactory(w, dom) ==
    Then(IF w.sm.state.currentShape = "factory"
         THEN SwitchToPolygon(w, dom) ELSE SwitchToFactory(w, dom),
         LAMBDA r :
             IF r.thrown # "none" THEN r
             ELSE IF "create-factory-btn" \notin dom THEN Threw(r.w, "TypeError")
             ELSE UIReset(r.w, dom, FALSE))

\* handleResize(): this.app is the PIXI.Application that PixiTool.init hands
\* to the UIController (index.js), and a PIXI.Application has no method
\* handleResize (PixiApplication has), so that the first statement throws
HandleResize(w) == Threw(w, "TypeError")

\* AnimationController.animate() in the world
Frame(w) == [w EXCEPT !.scene = Animate(w.sm.state, w.scene)]

(***************************************************************************)
(* KeyboardHandler (events/KeyboardHandler.js).  A keydown listener maps   *)
(* the world w to the world it leaves, the exception that left it and the  *)
(* handlers of custom shortcuts it called.                                 *)
(***************************************************************************)
\* a keydown event
KeyEvent(key, ctrlKey, shiftKey) ==
    [key |-> key, ctrlKey |-> ctrlKey, metaKey |-> FALSE, shiftKey |-> shiftKey,
     altKey |-> FALSE]

\* String.prototype.toLowerCase() on the keys of the model
ToLowerCase(key) ==
    CASE key = "F" -> "f"
      [] key = "K" -> "k"
      [] key = "Escape" -> "escape"
      [] key = "ArrowLeft" -> "arrowleft"
      [] key = "ArrowRight" -> "arrowright"
      [] key = "ArrowUp" -> "arrowup"
      [] key = "ArrowDown" -> "arrowdown"
      [] OTHER -> key

\* document.activeElement by its tagName and contentEditable properties
Element(tagName, contentEditable) ==
    [tagName |-> tagName, contentEditable |-> contentEditable]

\* isInputFocused() looking at the tag only
IsInputTagFocused(activeElement) ==
    activeElement.tagName \in {"INPUT", "TEXTAREA", "SELECT"}

\* isInputFocused()
IsInputFocused(activeElement) ==
    \/ activeElement.tagName \in {"INPUT", "TEXTAREA", "SELECT"}
    \/ activeElement.contentEditable = "true"

\* a call of a method of the ViewportController from the world w
InWorld(w, r) == Done([w EXCEPT !.sm = r.sm, !.stage = r.stage])

\* handlePan(deltaX, deltaY)
HandlePan(w, deltaX, deltaY) ==
    InWorld(w, Pan(w.sm, w.stage, Int2Q(deltaX), Int2Q(deltaY)))

\* handleKeyDown(event): the built-in shortcuts
HandleKeyDown(w, dom, event, activeElement) ==
    LET key == ToLowerCase(event.key)
        step == IF event.shiftKey THEN 50 ELSE 10
    IN  IF IsInputFocused(activeElement) THEN Done(w)
        ELSE CASE key = "r" ->
                      IF event.ctrlKey \/ event.metaKey
                      THEN InWorld(w, Reset(w.sm, w.stage)) ELSE Done(w)
               [] key = "0" -> InWorld(w, Reset(w.sm, w.stage))
               [] key \in {"=", "+"} -> InWorld(w, ZoomIn(w.sm, w.stage))
               [] key = "-" -> InWorld(w, ZoomOut(w.sm, w.stage))
               [] key = " " -> Done(AnimationToggleRotation(w))
               [] key = "c" ->
                      IF ~event.ctrlKey /\ ~event.metaKey
                      THEN Done(ToggleCenter(w)) ELSE Done(w)
               [] key = "f" ->
                      IF ~event.ctrlKey /\ ~event.metaKey
                      THEN ToggleFactory(w, dom) ELSE Done(w)
               [] key = "escape" -> UIReset(w, dom, TRUE)
               [] key = "arrowup" -> HandlePan(w, 0, -step)
               [] key = "arrowdown" -> HandlePan(w, 0, step)
               [] key = "arrowleft" -> HandlePan(w, -step, 0)
               [] key = "arrowright" -> HandlePan(w, step, 0)
               [] OTHER -> Done(w)

\* the listener setup(controllers) registers: (event) => this.handleKeyDown(event)
KeydownHandler == [kind |-> "builtin"]

\* modifiers = {} of addShortcut
NoModifiers == [ctrl |-> FALSE, shift |-> FALSE, alt |-> FALSE]

\* the listener addShortcut(key, handler, modifiers) builds
CustomHandler(key, handler, modifiers) ==
    [kind |-> "custom", key |-> key, handler |-> handler,
     modifiers |-> modifiers]

\* what a listener did
Heard(r, called) == [w |-> r.w, thrown |-> r.thrown, called |-> called]

\* a call of a keydown listener; the handler of a custom shortcut does nothing
\* but take the event
Listen(listener, w, dom, event, activeElement) ==
    IF listener.kind = "builtin"
    THEN Heard(HandleKeyDown(w, dom, event, activeElement), <<>>)
    ELSE IF IsInputFocused(activeElement) THEN Heard(Done(w), <<>>)
    ELSE IF /\ ToLowerCase(event.key) = ToLowerCase(listener.key)
            /\ (IF listener.modifiers.ctrl THEN event.ctrlKey ELSE ~event.ctrlKey)
            /\ (IF listener.modifiers.shift THEN event.shiftKey ELSE ~event.shiftKey)
            /\ (IF listener.modifiers.alt THEN event.altKey ELSE ~event.altKey)
    THEN Heard(Done(w), <<listener.handler>>)
    ELSE Heard(HandleKeyDown(w, dom, event, activeElement), <<>>)

\* a keydown event on the document: its listeners are called in the order of
\* their registration from index i on; an exception that leaves one is
\* reported and the next is called.  heard holds what the listeners before
\* did.
RECURSIVE DispatchKeyDown(_, _, _, _, _, _)
DispatchKeyDown(keydown, i, heard, dom, event, activeElement) ==
    IF i > Len(keydown) THEN heard
    ELSE Then(Listen(keydown[i], heard.w, dom, event, activeElement),
              LAMBDA h :
                  DispatchKeyDown(keydown, i + 1,
                      [w |-> h.w,
                       thrown |-> IF heard.thrown # "none" THEN heard.thrown
                                  ELSE h.thrown,
                       called |-> heard.called \o h.called],
                      dom, event, activeElement))

\* removeEventListeners()
RemoveEventListeners(keydown) == <<>>

\* addShortcut(key, handler, modifiers): the listeners of the handler
\* afterwards
AddShortcut(keydown, key, handler, modifiers) ==
    Append(RemoveEventListeners(keydown), CustomHandler(key, handler, modifiers))

(***************************************************************************)
(* PixiTool (index.js).  A call of the tool maps the tool t and the world  *)
(* w to the world it leaves, the exception that reached the caller and the *)
(* graphic it returned.                                                    *)
(***************************************************************************)
EmptyScene == Scene(NoGraphic, NoDot, NoDot)

Returns(r, handle) == [w |-> r.w, thrown |-> r.thrown, handle |-> handle]

\* a method that does not call checkInitialized()
Unguarded(t, w, r) == r

\* checkInitialized() at the head of a method whose body gives r
Guarded(t, w, r) ==
    IF ~t.isInitialized THEN Returns(Threw(w, "NotInitialized"), NoGraphic)
    ELSE r

\* createPolygon(points, options)
ToolCreatePolygon(t, w, points) ==
    Guarded(t, w, Then(CreatePolygon(points, Screen),
                       LAMBDA made : Returns(Threw(w, made.thrown), made.graphic)))

\* createFactory({ points })
ToolCreateFactory(t, w, points) ==
    Guarded(t, w, Then(CreateFactory(points, Screen, w.stage),
                       LAMBDA made : Returns(Threw(w, made.thrown), made.graphic)))

\* toggleRotation()
ToolToggleRotation(t, w) ==
    Guarded(t, w, Returns(Done(AnimationToggleRotation(w)), NoGraphic))

\* zoom(factor)
ToolZoom(t, w, factor) ==
    LET r == IF QLt(Int2Q(1), factor) THEN ZoomIn(w.sm, w.stage)
             ELSE ZoomOut(w.sm, w.stage)
    IN  Guarded(t, w, Returns(Done([w EXCEPT !.sm = r.sm, !.stage = r.stage]),
                              NoGraphic))

\* reset()
ToolReset(t, w, dom) == Guarded(t, w, Returns(UIReset(w, dom, TRUE), NoGraphic))

\* the container after initializeDefaultScene()
DefaultState == Spread(InitialState, [currentShape |-> "polygon"])

\* the scene after initializeDefaultScene()
DefaultScene ==
    Scene(AddToStage(CreatePolygon(DEFAULT_POLYGON_POINTS, Screen).graphic),
          NoDot, NoDot)

\* init() from the return of pixiApp.init() on: the modules are built, the
\* UIController subscribes and the default scene is made
Initialized ==
    Modules([state |-> DefaultState, subscribers |-> <<"ui">>],
            Viewport(Int2Q(0), Int2Q(0), Int2Q(1)), DefaultScene)

\* the click listener of the button id.  live is FALSE once the application
\* has been destroyed: a destroyed PIXI.Application has no renderer and no
\* stage, so that reading its canvas or its screen and calling its render()
\* throw a TypeError.  changeColor() touches the colours only.
Click(id, w, dom, live) ==
    CASE id = "create-factory-btn" ->
             IF live THEN ToggleFactory(w, dom) ELSE Threw(w, "TypeError")
      [] id = "rotate-btn" -> Done(AnimationToggleRotation(w))
      [] id = "color-btn" -> Done(w)
      [] id = "center-btn" -> Done(ToggleCenter(w))
      [] id = "factory-center-btn" -> Done(ToggleFactoryCenterType(w))
      [] id = "zoom-in-btn" ->
             IF live THEN InWorld(w, ZoomIn(w.sm, w.stage))
             ELSE Threw(w, "TypeError")
      [] id = "zoom-out-btn" ->
             IF live THEN InWorld(w, ZoomOut(w.sm, w.stage))
             ELSE Threw(w, "TypeError")
      [] id = "viewport-reset-btn" ->
             IF live THEN InWorld(w, Reset(w.sm, w.stage))
             ELSE Threw([w EXCEPT !.sm = UpdateViewport(@, ResetViewport).sm],
                        "TypeError")
      [] id = "reset-btn" -> UIReset(w, dom, TRUE)

\* the pointerup and mouseup listeners of the window
PointerUpListener(w, live) ==
    IF live THEN InWorld(w, HandlePointerUp(w.sm, w.stage))
    ELSE Threw([w EXCEPT !.sm = SetDragging(@, FALSE, NoPosition).sm],
               "TypeError")

\* the ids of the buttons setupUIEventListeners() looks up
ClickButtons ==
    Buttons \cup {"zoom-in-btn", "zoom-out-btn", "viewport-reset-btn", "reset-btn"}

\* no listener is registered and no key has been pressed
NoListeners ==
    [keydown |-> <<>>, canvas |-> {}, window |-> {}, click |-> {},
     called |-> <<>>, shortcuts |-> <<>>]

\* the listeners init() leaves registered: those of the ViewportController on
\* the canvas and the window, those of the UIController on the buttons the
\* document has and on the window, and that of the KeyboardHandler
Registered(dom) ==
    [NoListeners EXCEPT
        !.keydown = <<KeydownHandler>>,
        !.canvas = {"wheel", "pointerdown", "mousedown", "contextmenu"},
        !.window = {"pointermove", "pointerup", "mousemove", "mouseup", "resize"},
        !.click = ClickButtons \cap dom]

\* the listeners destroy() of an initialized tool leaves registered:
\* KeyboardHandler.destroy() removes its own, the canvas goes with the
\* application, and nothing else is removed
Unregistered(ls) ==
    [ls EXCEPT !.keydown = RemoveEventListeners(@), !.canvas = {}]

\* destroy() of an initialized tool: AnimationController.destroy() stops the
\* animations, the application is destroyed with its stage, the container is
\* reset
Destroyed(w) ==
    [w EXCEPT !.sm = ResetState(StopAll(w).sm).sm, !.scene = EmptyScene]

(***************************************************************************)
(* State.  state and subscribers are the StateManager's fields, stage is   *)
(* app.stage's position and scale.  The others record the last operation:  *)
(* its name and arguments (lastOp), the container and the stage before it  *)
(* and the name of the operation before it, with that operation's pivot    *)
(* and the viewport it started from (before), the setState calls           *)
(* it made (calls) and whether an exception                                *)
(* reached its caller (escaped).  ops counts the operations of the run.    *)
(* regTime[cb] is the count of the operation in which cb was last          *)
(* subscribed (0: never, so no unsubscribe closure for it exists), and     *)
(* cancelled holds the callbacks whose unsubscribe closure has been called *)
(* since they were last subscribed.                                        *)
(***************************************************************************)
VARIABLES state, subscribers, stage, calls, escaped, lastOp, before, ops,
          regTime, cancelled

\* the argument of the geometry functions and what each call of them gave
VARIABLES points, polygonCenter, geometricCenter

geometryVars == <<points, polygonCenter, geometricCenter>>

\* the PixiTool: its isInitialized flag and whether an init() call is waiting
\* for the application (tool), the ids of the elements of the document (dom),
\* the display objects the state refers to (scene), and of the last call of
\* the tool or of its UIController: the exception that reached the caller,
\* the graphic it returned, the scene and the tool before it, and whether
\* init() has completed with no destroy() called since (ui)
VARIABLES tool, dom, scene, ui

\* the listeners the tool has registered: the keydown listeners of the
\* document in the order of their registration (keydown), the events of the
\* canvas and of the window that have a listener, the buttons that have a
\* click listener; and the handlers of custom shortcuts the last key press
\* called (called) and the shortcuts added so far (shortcuts)
VARIABLES listeners

toolVars == <<tool, dom, scene, ui, listeners>>

\* the fields of an original PixiApp on a page of its own that is fed the
\* events of the viewport
VARIABLES original

\* the drag under way or just ended: whether the pointer is down after a
\* pointer-down on the canvas (active), the position of that pointer-down
\* (from) and the viewport at that moment, the position of the last pointer
\* event of the drag (last), whether the last operation ended it (ended),
\* whether another operation came in between (interleaved) and whether each
\* of its events was delivered twice (doubled)
VARIABLES drag

sideVars == <<original, drag>>

NoDrag ==
    [active |-> FALSE, from |-> Point(0, 0), last |-> Point(0, 0),
     viewport |-> Viewport(Int2Q(0), Int2Q(0), Int2Q(1)), ended |-> FALSE,
     interleaved |-> FALSE, doubled |-> FALSE]

vars == <<state, subscribers, stage, calls, escaped, lastOp, before, ops,
          regTime, cancelled, geometryVars, toolVars, sideVars>>

\* new PixiTool(): the constructor leaves isInitialized false
Constructed == [isInitialized |-> FALSE, pending |-> FALSE]

NoCall ==
    [thrown |-> "none", handle |-> NoGraphic, scene |-> EmptyScene,
     tool |-> Constructed, ready |-> FALSE]

\* the tool is left aside: only the controller, the container or the
\* functions are exercised
ToolAside ==
    /\ tool = Constructed
    /\ dom = {}
    /\ scene = EmptyScene
    /\ ui = NoCall
    /\ listeners = NoListeners

\* the function has not been called
NotCalled == [called |-> FALSE]

\* no geometry call is under way
GeometryIdle ==
    /\ points = <<>>
    /\ polygonCenter = NotCalled
    /\ geometricCenter = NotCalled

SM == [state |-> state, subscribers |-> subscribers]

Op(name, pivot, args) == [name |-> name, pivot |-> pivot, args |-> args]

NoPivot == <<>>

\* the state after PixiTool.init(): the ViewportController has initialised the
\* viewport and the UIController has subscribed
Init ==
    /\ state = InitialState
    /\ subscribers = <<"ui">>
    /\ stage = Viewport(Int2Q(0), Int2Q(0), Int2Q(1))
    /\ calls = <<>>
    /\ escaped = FALSE
    /\ lastOp = Op("init", NoPivot, <<>>)
    /\ before = [state |-> InitialState, subscribers |-> <<"ui">>,
                 stage |-> Viewport(Int2Q(0), Int2Q(0), Int2Q(1)),
                 cancelled |-> {}, op |-> "none",
                 prev |-> [viewport |-> Viewport(Int2Q(0), Int2Q(0), Int2Q(1)),
                           pivot |-> NoPivot]]
    /\ ops = 0
    /\ regTime = [cb \in Callbacks |-> 0]
    /\ cancelled = {}
    /\ original = PixiApp
    /\ drag = NoDrag
    /\ GeometryIdle
    /\ ToolAside

RECURSIVE DeliveriesOf(_)
RECURSIVE DeliveredIn(_)
\* the invocations of one notification and of the notifications its
\* callbacks started, in the order they happened
DeliveredIn(invoked) ==
    Then(invoked,
         LAMBDA all :
             IF all = <<>> THEN <<>>
             ELSE << [callback |-> Head(all).callback,
                      newState |-> Head(all).newState] >>
                  \o DeliveriesOf(Head(all).nested)
                  \o DeliveredIn(Tail(all)))

\* the invocations of callbacks in these setState calls, in the order they
\* happened
DeliveriesOf(cs) ==
    Then(cs,
         LAMBDA all :
             IF all = <<>> THEN <<>>
             ELSE DeliveredIn(Head(all).invoked) \o DeliveriesOf(Tail(all)))

\* the callbacks whose unsubscribe closure was called by the callbacks that
\* ran in these setState calls
ClosuresCalledIn(cs) ==
    Then(DeliveriesOf(cs),
         LAMBDA ran :
             { cb \in Callbacks :
                 \E j \in 1..Len(ran) :
                     \/ cb = "once" /\ ran[j].callback = "once"
                     \/ cb = "logger" /\ ran[j].callback = "remover" })

\* one operation took the program to outcome r
Effect(op, r) ==
    /\ ops < MaxOps
    /\ ops' = ops + 1
    /\ state' = r.sm.state
    /\ subscribers' = r.sm.subscribers
    /\ stage' = r.stage
    /\ calls' = r.calls
    /\ escaped' = r.escaped
    /\ lastOp' = op
    /\ before' = [state |-> state, subscribers |-> subscribers, stage |-> stage,
                  cancelled |-> cancelled, op |-> lastOp.name,
                  prev |-> [viewport |-> before.state.viewport,
                            pivot |-> lastOp.pivot]]
    /\ UNCHANGED geometryVars

\* an operation of the container or of the controller that neither
\* subscribes nor calls an unsubscribe closure itself
Handled(op, r) ==
    /\ Effect(op, r)
    /\ UNCHANGED toolVars
    /\ regTime' = regTime
    /\ cancelled' =
          cancelled \cup { cb \in ClosuresCalledIn(r.calls) : regTime[cb] > 0 }

\* such an operation with no original PixiApp beside it
Step(op, r) ==
    /\ Handled(op, r)
    /\ UNCHANGED sideVars

(***************************************************************************)
(* Inputs.                                                                 *)
(***************************************************************************)
\* wheel positions (clientX, clientY): a point off the canvas centre
WheelPoints == {<<108, 58>>}

WheelDeltas == {-100, 100}

\* pointer positions: pressed at the canvas centre or outside the canvas, moved
\* to a point on the canvas or outside it
DownPoints == {<<408, 308>>, <<900, 30>>}

MovePoints == {<<108, 58>>, <<900, 30>>}

PanDeltas == {<<Int2Q(-50), Q(5, 2)>>}

\* zoomTo(scale, center): below the minimum, just above it, the default scale,
\* just below the maximum, above it
ZoomTargets ==
    { <<Q(1, 20), NoCenter>>, <<Q(3, 25), <<Int2Q(100), Int2Q(50)>> >>,
      <<DEFAULT_SCALE, NoCenter>>,
      <<Q(24, 5), NoCenter>>, <<Int2Q(7), <<Int2Q(100), Int2Q(50)>> >> }

Bounds(x, y, width, height) ==
    [x |-> Int2Q(x), y |-> Int2Q(y), width |-> Int2Q(width), height |-> Int2Q(height)]

\* fitToContent(bounds, padding): a fit within the scale range, a fit above
\* MAX_SCALE, and a padding over one half, which makes the fitted scale negative
FitInputs ==
    { <<Bounds(0, 0, 200, 200), Q(1, 10)>>,
      <<Bounds(10, 20, 40, 30), Q(1, 10)>>,
      <<Bounds(0, 0, 200, 200), Q(3, 5)>> }

(***************************************************************************)
(* Actions of the viewport controller.                                     *)
(***************************************************************************)
Wheel ==
    \E p \in WheelPoints, deltaY \in WheelDeltas :
        Step(Op("handleWheel", <<MouseX(p[1]), MouseY(p[2])>>, <<deltaY>>),
             HandleWheel(SM, stage, p[1], p[2], deltaY))

PointerDown ==
    \E p \in DownPoints :
        Step(Op("handlePointerDown", NoPivot, p),
             HandlePointerDown(SM, stage, p[1], p[2]))

PointerMove ==
    \E p \in MovePoints :
        Step(Op("handlePointerMove", NoPivot, p),
             HandlePointerMove(SM, stage, p[1], p[2]))

PointerUp ==
    Step(Op("handlePointerUp", NoPivot, <<>>), HandlePointerUp(SM, stage))

DoZoomIn ==
    Step(Op("zoomIn", <<Q(CanvasWidth, 2), Q(CanvasHeight, 2)>>, <<>>),
         ZoomIn(SM, stage))

DoZoomOut ==
    Step(Op("zoomOut", <<Q(CanvasWidth, 2), Q(CanvasHeight, 2)>>, <<>>),
         ZoomOut(SM, stage))

DoReset == Step(Op("reset", NoPivot, <<>>), Reset(SM, stage))

DoPan ==
    \E d \in PanDeltas :
        Step(Op("pan", NoPivot, d), Pan(SM, stage, d[1], d[2]))

DoZoomTo ==
    \E t \in ZoomTargets :
        Step(Op("zoomTo", ZoomToCenter(t[2]), <<t[1]>>),
             ZoomTo(SM, stage, t[1], t[2]))

DoFitToContent ==
    \E f \in FitInputs :
        Step(Op("fitToContent", NoPivot, f),
             FitToContent(SM, stage, f[1], f[2]))

Next ==
    \/ Wheel
    \/ PointerDown
    \/ PointerMove
    \/ PointerUp
    \/ DoZoomIn
    \/ DoZoomOut
    \/ DoReset
    \/ DoPan
    \/ DoZoomTo
    \/ DoFitToContent

Spec == Init /\ [][Next]_vars

(***************************************************************************)
(* The refactored controller and the original PixiApp side by side: both   *)
(* are fed the same wheel, pointer, zoom and reset events, from the        *)
(* viewport that a number of zoomIn() or zoomOut() calls left in each.     *)
(***************************************************************************)
\* the zooms before the first event: none, 9 steps in (the last of them is
\* cut at MAX_SCALE), 11 steps out (the last of them is cut at MIN_SCALE)
StartZooms == {0, 9, -11}

\* the container after n zoomIn() calls (-n zoomOut() calls for n < 0)
RECURSIVE ZoomedContainer(_)
ZoomedContainer(n) ==
    IF n = 0 THEN [state |-> InitialState, subscribers |-> <<"ui">>]
    ELSE Then(ZoomedContainer(IF n > 0 THEN n - 1 ELSE n + 1),
              LAMBDA sm : IF n > 0 THEN ZoomIn(sm, StageOf(sm)).sm
                          ELSE ZoomOut(sm, StageOf(sm)).sm)

\* the original PixiApp after the same calls
RECURSIVE ZoomedPixiApp(_)
ZoomedPixiApp(n) ==
    IF n = 0 THEN PixiApp
    ELSE Then(ZoomedPixiApp(IF n > 0 THEN n - 1 ELSE n + 1),
              LAMBDA app : IF n > 0 THEN PixiAppZoomIn(app)
                           ELSE PixiAppZoomOut(app))

WheelBoth ==
    \E p \in WheelPoints, deltaY \in WheelDeltas :
        /\ Handled(Op("handleWheel", <<MouseX(p[1]), MouseY(p[2])>>, <<deltaY>>),
                   HandleWheel(SM, stage, p[1], p[2], deltaY))
        /\ original' = PixiAppHandleWheel(original, p[1], p[2], deltaY)
        /\ drag' = drag

PointerDownBoth ==
    \E p \in DownPoints :
        /\ Handled(Op("handlePointerDown", NoPivot, p),
                   HandlePointerDown(SM, stage, p[1], p[2]))
        /\ original' = PixiAppHandlePointerDown(original, p[1], p[2])
        /\ drag' = drag

PointerMoveBoth ==
    \E p \in MovePoints :
        /\ Handled(Op("handlePointerMove", NoPivot, p),
                   HandlePointerMove(SM, stage, p[1], p[2]))
        /\ original' = PixiAppHandlePointerMove(original, p[1], p[2])
        /\ drag' = drag

PointerUpBoth ==
    /\ Handled(Op("handlePointerUp", NoPivot, <<>>), HandlePointerUp(SM, stage))
    /\ original' = PixiAppHandlePointerUp(original)
    /\ drag' = drag

ZoomInBoth ==
    /\ Handled(Op("zoomIn", <<Q(CanvasWidth, 2), Q(CanvasHeight, 2)>>, <<>>),
               ZoomIn(SM, stage))
    /\ original' = PixiAppZoomIn(original)
    /\ drag' = drag

ZoomOutBoth ==
    /\ Handled(Op("zoomOut", <<Q(CanvasWidth, 2), Q(CanvasHeight, 2)>>, <<>>),
               ZoomOut(SM, stage))
    /\ original' = PixiAppZoomOut(original)
    /\ drag' = drag

ResetBoth ==
    /\ Handled(Op("reset", NoPivot, <<>>), Reset(SM, stage))
    /\ original' = PixiAppResetViewport(original)
    /\ drag' = drag

InitBoth ==
    \E n \in StartZooms :
        /\ state = ZoomedContainer(n).state
        /\ subscribers = <<"ui">>
        /\ stage = StageOf(ZoomedContainer(n))
        /\ calls = <<>>
        /\ escaped = FALSE
        /\ lastOp = Op("init", NoPivot, <<n>>)
        /\ before = [state |-> ZoomedContainer(n).state,
                     subscribers |-> <<"ui">>,
                     stage |-> StageOf(ZoomedContainer(n)),
                     cancelled |-> {}, op |-> "none",
                     prev |-> [viewport |-> ZoomedContainer(n).state.viewport,
                               pivot |-> NoPivot]]
        /\ ops = 0
        /\ regTime = [cb \in Callbacks |-> 0]
        /\ cancelled = {}
        /\ original = ZoomedPixiApp(n)
        /\ drag = NoDrag
        /\ GeometryIdle
        /\ ToolAside

NextBoth ==
    \/ WheelBoth
    \/ PointerDownBoth
    \/ PointerMoveBoth
    \/ PointerUpBoth
    \/ ZoomInBoth
    \/ ZoomOutBoth
    \/ ResetBoth

SpecBoth == InitBoth /\ [][NextBoth]_vars

(***************************************************************************)
(* Drags: the pointer is pressed, moved and released, each event reported  *)
(* once or as a pointer event and a mouse event, with wheel notches in     *)
(* between.                                                                *)
(***************************************************************************)
Press ==
    \E p \in DownPoints, twice \in BOOLEAN :
        /\ Handled(Op("handlePointerDown", NoPivot, p),
                   Delivered(twice, SM, stage,
                             LAMBDA sm, g : HandlePointerDown(sm, g, p[1], p[2])))
        /\ drag' = IF IsOnCanvas(p[1], p[2])
                   THEN [active |-> TRUE, from |-> Point(p[1], p[2]),
                         last |-> Point(p[1], p[2]), viewport |-> state.viewport,
                         ended |-> FALSE, interleaved |-> FALSE,
                         doubled |-> twice]
                   ELSE [drag EXCEPT !.ended = FALSE]
        /\ original' = original

Move ==
    \E p \in MovePoints, twice \in BOOLEAN :
        /\ Handled(Op("handlePointerMove", NoPivot, p),
                   Delivered(twice, SM, stage,
                             LAMBDA sm, g : HandlePointerMove(sm, g, p[1], p[2])))
        /\ drag' = IF drag.active
                   THEN [drag EXCEPT !.last = Point(p[1], p[2]),
                                     !.doubled = @ /\ twice]
                   ELSE [drag EXCEPT !.ended = FALSE]
        /\ original' = original

Release ==
    \E twice \in BOOLEAN :
        /\ Handled(Op("handlePointerUp", NoPivot, <<>>),
                   Delivered(twice, SM, stage,
                             LAMBDA sm, g : HandlePointerUp(sm, g)))
        /\ drag' = [drag EXCEPT !.active = FALSE, !.ended = drag.active,
                                !.doubled = @ /\ twice]
        /\ original' = original

WheelAside ==
    \E p \in WheelPoints, deltaY \in WheelDeltas :
        /\ Handled(Op("handleWheel", <<MouseX(p[1]), MouseY(p[2])>>, <<deltaY>>),
                   HandleWheel(SM, stage, p[1], p[2], deltaY))
        /\ drag' = [drag EXCEPT !.interleaved = @ \/ drag.active,
                                !.ended = FALSE]
        /\ original' = original

NextDrag ==
    \/ Press
    \/ Move
    \/ Release
    \/ WheelAside

SpecDrag == InitBoth /\ [][NextDrag]_vars

(***************************************************************************)
(* Actions on the state container itself, as a caller holding the          *)
(* StateManager (PixiTool.getStateManager, PixiTool.onStateChange) makes   *)
(* them.                                                                   *)
(***************************************************************************)
\* partial states handed to setState
Partials ==
    { [isRotating |-> TRUE],
      [pbsMoveable |-> TRUE, currentShape |-> "polygon"] }

\* viewport fields handed to updateViewport
ViewportPartials == { [x |-> Int2Q(100), y |-> Int2Q(100)] }

\* subscribe(cb) for a callback that is not registered at the moment
DoSubscribe ==
    \E cb \in Callbacks :
        /\ Len(subscribers) < MaxSubs
        /\ IndexOf(subscribers, cb, 1) = 0
        /\ Effect(Op("subscribe", NoPivot, <<cb>>),
                  [sm |-> [SM EXCEPT !.subscribers = Subscribe(@, cb)],
                   escaped |-> FALSE, calls |-> <<>>, stage |-> stage])
        /\ UNCHANGED <<toolVars, sideVars>>
        /\ regTime' = [regTime EXCEPT ![cb] = ops + 1]
        /\ cancelled' = cancelled \ {cb}

\* a call of the closure subscribe(cb) returned
DoUnsubscribe ==
    \E cb \in Callbacks :
        /\ regTime[cb] > 0
        /\ Effect(Op("unsubscribe", NoPivot, <<cb>>),
                  [sm |-> [SM EXCEPT !.subscribers = Unsubscribe(@, cb)],
                   escaped |-> FALSE, calls |-> <<>>, stage |-> stage])
        /\ UNCHANGED <<toolVars, sideVars>>
        /\ regTime' = regTime
        /\ cancelled' = cancelled \cup {cb}

DoSetState ==
    \E partial \in Partials :
        Step(Op("setState", NoPivot, <<partial>>),
             Outcome(SetState(SM, partial), stage))

DoSet ==
    Step(Op("set", NoPivot, <<"currentShape", "factory">>),
         Outcome(Set(SM, "currentShape", "factory"), stage))

DoToggleRotation ==
    Step(Op("toggleRotation", NoPivot, <<>>), Outcome(ToggleRotation(SM), stage))

DoSetDragging ==
    Step(Op("setDragging", NoPivot, <<TRUE, Point(108, 58)>>),
         Outcome(SetDragging(SM, TRUE, Point(108, 58)), stage))

DoUpdateViewport ==
    \E viewport \in ViewportPartials :
        Step(Op("updateViewport", NoPivot, <<viewport>>),
             Outcome(UpdateViewport(SM, viewport), stage))

DoResetState ==
    Step(Op("resetState", NoPivot, <<>>), Outcome(ResetState(SM), stage))

\* a StateManager right after its constructor: nobody has subscribed
InitContainer ==
    /\ state = InitialState
    /\ subscribers = <<>>
    /\ stage = Viewport(Int2Q(0), Int2Q(0), Int2Q(1))
    /\ calls = <<>>
    /\ escaped = FALSE
    /\ lastOp = Op("init", NoPivot, <<>>)
    /\ before = [state |-> InitialState, subscribers |-> <<>>,
                 stage |-> Viewport(Int2Q(0), Int2Q(0), Int2Q(1)),
                 cancelled |-> {}, op |-> "none",
                 prev |-> [viewport |-> Viewport(Int2Q(0), Int2Q(0), Int2Q(1)),
                           pivot |-> NoPivot]]
    /\ ops = 0
    /\ regTime = [cb \in Callbacks |-> 0]
    /\ cancelled = {}
    /\ original = PixiApp
    /\ drag = NoDrag
    /\ GeometryIdle
    /\ ToolAside

NextContainer ==
    \/ DoSubscribe
    \/ DoUnsubscribe
    \/ DoSetState
    \/ DoSet
    \/ DoToggleRotation
    \/ DoSetDragging
    \/ DoUpdateViewport
    \/ DoResetState
    \/ DoZoomIn
    \/ DoReset

SpecContainer == InitContainer /\ [][NextContainer]_vars

(***************************************************************************)
(* The geometry functions on their own: a list of points is chosen and     *)
(* each function is called on it.                                          *)
(***************************************************************************)
\* coordinates of the points tried
GridPoints == { QPoint(x, y) : x \in {0, 1, 2}, y \in {0, 2} }

\* every list of at most MaxPoints grid points, and the two lists of the program
PointInputs ==
    UNION { [1..n -> GridPoints] : n \in 0..MaxPoints }
      \cup {DEFAULT_POLYGON_POINTS, FACTORY_POINTS}

InitGeometry ==
    /\ state = InitialState
    /\ subscribers = <<>>
    /\ stage = Viewport(Int2Q(0), Int2Q(0), Int2Q(1))
    /\ calls = <<>>
    /\ escaped = FALSE
    /\ lastOp = Op("init", NoPivot, <<>>)
    /\ before = [state |-> InitialState, subscribers |-> <<>>,
                 stage |-> Viewport(Int2Q(0), Int2Q(0), Int2Q(1)),
                 cancelled |-> {}, op |-> "none",
                 prev |-> [viewport |-> Viewport(Int2Q(0), Int2Q(0), Int2Q(1)),
                           pivot |-> NoPivot]]
    /\ ops = 0
    /\ regTime = [cb \in Callbacks |-> 0]
    /\ cancelled = {}
    /\ original = PixiApp
    /\ drag = NoDrag
    /\ points \in PointInputs
    /\ polygonCenter = NotCalled
    /\ geometricCenter = NotCalled
    /\ ToolAside

CallPolygonCenter ==
    /\ polygonCenter = NotCalled
    /\ polygonCenter' = CalculatePolygonCenter(points)
    /\ UNCHANGED <<state, subscribers, stage, calls, escaped, lastOp, before, ops,
                   regTime, cancelled, points, geometricCenter, toolVars,
                   sideVars>>

CallGeometricCenter ==
    /\ geometricCenter = NotCalled
    /\ geometricCenter' = CalculateGeometricCenter(points)
    /\ UNCHANGED <<state, subscribers, stage, calls, escaped, lastOp, before, ops,
                   regTime, cancelled, points, polygonCenter, toolVars,
                   sideVars>>

NextGeometry ==
    \/ CallPolygonCenter
    \/ CallGeometricCenter

SpecGeometry == InitGeometry /\ [][NextGeometry]_vars

(***************************************************************************)
(* The initialized tool: the operations of its UIController (by button or  *)
(* by key), the frames of the ticker, the resize of the window, and the    *)
(* shape constructors and the zoom of its API.                             *)
(***************************************************************************)
W == Modules(SM, stage, scene)

\* a call of the tool or of one of its handlers took the program to outcome r
ToolEffect(op, outcome) ==
    \E r \in {outcome} :
        /\ Effect(op, [sm |-> r.w.sm, stage |-> r.w.stage, calls |-> <<>>,
                       escaped |-> FALSE])
        /\ regTime' = regTime
        /\ cancelled' = cancelled
        /\ scene' = r.w.scene
        /\ ui' = [thrown |-> r.thrown, handle |-> r.handle, scene |-> scene,
                  tool |-> tool,
                  ready |-> CASE op.name = "init.complete" -> TRUE
                              [] op.name = "destroy" -> FALSE
                              [] OTHER -> ui.ready]
        /\ dom' = dom
        /\ UNCHANGED sideVars

\* a call that registers and removes no listener
ToolStep(op, outcome) ==
    /\ ToolEffect(op, outcome)
    /\ listeners' = listeners

AllElements == Buttons \cup {"pixi-container"}

DomInputs ==
    { AllElements, AllElements \ {"create-factory-btn"},
      AllElements \ {"rotate-btn"}, AllElements \ {"center-btn"} }

\* the lists of points handed to createPolygon and createFactory
ShapeInputs ==
    { <<>>, << QPoint(0, 0), QPoint(2, 0) >>,
      << QPoint(0, 0), QPoint(2, 0), QPoint(0, 2) >> }

ZoomFactors == { Int2Q(2), Q(1, 2) }

KeyToggleFactory ==
    /\ tool' = tool
    /\ ToolStep(Op("ui.toggleFactory", NoPivot, <<>>),
                Returns(ToggleFactory(W, dom), NoGraphic))

KeyToggleRotation ==
    /\ tool' = tool
    /\ ToolStep(Op("ui.toggleRotation", NoPivot, <<>>),
                Returns(Done(AnimationToggleRotation(W)), NoGraphic))

KeyToggleCenter ==
    /\ tool' = tool
    /\ ToolStep(Op("ui.toggleCenter", NoPivot, <<>>),
                Returns(Done(ToggleCenter(W)), NoGraphic))

ClickFactoryCenter ==
    /\ "factory-center-btn" \in dom
    /\ tool' = tool
    /\ ToolStep(Op("ui.toggleFactoryCenterType", NoPivot, <<>>),
                Returns(Done(ToggleFactoryCenterType(W)), NoGraphic))

KeyReset ==
    /\ tool' = tool
    /\ ToolStep(Op("ui.reset", NoPivot, <<>>),
                Returns(UIReset(W, dom, TRUE), NoGraphic))

WindowResize ==
    /\ tool' = tool
    /\ ToolStep(Op("ui.handleResize", NoPivot, <<>>),
                Returns(HandleResize(W), NoGraphic))

Tick ==
    /\ tool' = tool
    /\ ToolStep(Op("animate", NoPivot, <<>>), Returns(Done(Frame(W)), NoGraphic))

CallCreatePolygon ==
    \E pts \in ShapeInputs :
        /\ tool' = tool
        /\ ToolStep(Op("createPolygon", NoPivot, <<pts>>),
                    ToolCreatePolygon(tool, W, pts))

CallCreateFactory ==
    \E pts \in ShapeInputs :
        /\ tool' = tool
        /\ ToolStep(Op("createFactory", NoPivot, <<pts>>),
                    ToolCreateFactory(tool, W, pts))

CallZoom ==
    \E factor \in ZoomFactors :
        /\ tool' = tool
        /\ ToolStep(Op("zoom", NoPivot, <<factor>>), ToolZoom(tool, W, factor))

\* the state after the page has loaded and its PixiTool has been initialized
InitScene ==
    /\ state = Initialized.sm.state
    /\ subscribers = Initialized.sm.subscribers
    /\ stage = Initialized.stage
    /\ calls = <<>>
    /\ escaped = FALSE
    /\ lastOp = Op("init", NoPivot, <<>>)
    /\ before = [state |-> Initialized.sm.state,
                 subscribers |-> Initialized.sm.subscribers,
                 stage |-> Initialized.stage,
                 cancelled |-> {}, op |-> "none",
                 prev |-> [viewport |-> Viewport(Int2Q(0), Int2Q(0), Int2Q(1)),
                           pivot |-> NoPivot]]
    /\ ops = 0
    /\ regTime = [cb \in Callbacks |-> 0]
    /\ cancelled = {}
    /\ original = PixiApp
    /\ drag = NoDrag
    /\ GeometryIdle
    /\ tool = [isInitialized |-> TRUE, pending |-> FALSE]
    /\ dom \in DomInputs
    /\ scene = Initialized.scene
    /\ ui = [NoCall EXCEPT !.ready = TRUE]
    /\ listeners = Registered(dom)

NextScene ==
    \/ KeyToggleFactory
    \/ KeyToggleRotation
    \/ KeyToggleCenter
    \/ ClickFactoryCenter
    \/ KeyReset
    \/ WindowResize
    \/ Tick
    \/ CallCreatePolygon
    \/ CallCreateFactory
    \/ CallZoom

SpecScene == InitScene /\ [][NextScene]_vars

(***************************************************************************)
(* The life of a PixiTool: new PixiTool(), init(), calls of its API,       *)
(* destroy().  init() is called on a tool that is not initialized and has  *)
(* no init() under way.                                                    *)
(***************************************************************************)
\* init() up to await this.pixiApp.init(): PixiApplication.init throws when the
\* document has no container element, and init() throws that error on
InitBegin ==
    /\ ~tool.isInitialized
    /\ ~tool.pending
    /\ tool' = [tool EXCEPT !.pending = "pixi-container" \in dom]
    /\ ToolStep(Op("init", NoPivot, <<>>),
                Returns(IF "pixi-container" \in dom THEN Done(W)
                        ELSE Threw(W, "Error"), NoGraphic))

\* the rest of init(), once the application is there
InitComplete ==
    /\ tool.pending
    /\ tool' = [isInitialized |-> TRUE, pending |-> FALSE]
    /\ listeners' = Registered(dom)
    /\ ToolEffect(Op("init.complete", NoPivot, <<>>),
                  Returns(Done(Initialized), NoGraphic))

\* destroy()
DoDestroy ==
    /\ tool' = [tool EXCEPT !.isInitialized = FALSE]
    /\ listeners' = IF tool.isInitialized THEN Unregistered(listeners)
                     ELSE listeners
    /\ ToolEffect(Op("destroy", NoPivot, <<>>),
                  Returns(Done(IF tool.isInitialized THEN Destroyed(W) ELSE W),
                          NoGraphic))

CallToggleRotation ==
    /\ tool' = tool
    /\ ToolStep(Op("toggleRotation", NoPivot, <<>>), ToolToggleRotation(tool, W))

CallReset ==
    /\ tool' = tool
    /\ ToolStep(Op("reset", NoPivot, <<>>), ToolReset(tool, W, dom))

\* new PixiTool(): no module exists yet
InitTool ==
    /\ state = InitialState
    /\ subscribers = <<>>
    /\ stage = Viewport(Int2Q(0), Int2Q(0), Int2Q(1))
    /\ calls = <<>>
    /\ escaped = FALSE
    /\ lastOp = Op("new", NoPivot, <<>>)
    /\ before = [state |-> InitialState, subscribers |-> <<>>,
                 stage |-> Viewport(Int2Q(0), Int2Q(0), Int2Q(1)),
                 cancelled |-> {}, op |-> "none",
                 prev |-> [viewport |-> Viewport(Int2Q(0), Int2Q(0), Int2Q(1)),
                           pivot |-> NoPivot]]
    /\ ops = 0
    /\ regTime = [cb \in Callbacks |-> 0]
    /\ cancelled = {}
    /\ original = PixiApp
    /\ drag = NoDrag
    /\ GeometryIdle
    /\ tool = Constructed
    /\ dom \in {AllElements, Buttons}
    /\ scene = EmptyScene
    /\ ui = NoCall
    /\ listeners = NoListeners

NextTool ==
    \/ InitBegin
    \/ InitComplete
    \/ DoDestroy
    \/ CallToggleRotation
    \/ CallReset
    \/ CallCreatePolygon
    \/ CallZoom

SpecTool == InitTool /\ [][NextTool]_vars

(***************************************************************************)
(* The input events of the initialized tool: key presses with the focus on *)
(* some element of the page, custom shortcuts added through the tool, and  *)
(* destroy().                                                              *)
(***************************************************************************)
\* the keys pressed: zoom in, pan with shift, rotation, shape (with shift),
\* marker, and two keys without a built-in shortcut
KeyEvents ==
    { KeyEvent("=", FALSE, FALSE), KeyEvent("ArrowLeft", FALSE, TRUE),
      KeyEvent(" ", FALSE, FALSE), KeyEvent("F", FALSE, TRUE),
      KeyEvent("c", FALSE, FALSE), KeyEvent("k", FALSE, FALSE),
      KeyEvent("j", TRUE, FALSE) }

\* the elements that hold the focus: the body, the three input tags, an
\* element with contentEditable
Elements ==
    { Element("BODY", "inherit"), Element("INPUT", "inherit"),
      Element("TEXTAREA", "inherit"), Element("SELECT", "inherit"),
      Element("DIV", "true") }

\* the shortcuts handed to addShortcut(key, handler, modifiers)
Shortcuts ==
    { [key |-> "K", handler |-> "h1", modifiers |-> NoModifiers],
      [key |-> "j", handler |-> "h2",
       modifiers |-> [NoModifiers EXCEPT !.ctrl = TRUE]] }

\* a key is pressed while activeElement has the focus
KeyDown ==
    \E event \in KeyEvents, activeElement \in Elements :
        /\ ops < MaxEvents
        /\ \E h \in {DispatchKeyDown(listeners.keydown, 1, Heard(Done(W), <<>>),
                                     dom, event, activeElement)} :
               /\ tool' = tool
               /\ listeners' = [listeners EXCEPT !.called = h.called]
               /\ ToolEffect(Op("keydown", NoPivot, <<event, activeElement>>),
                             Returns(h, NoGraphic))

\* PixiTool.addShortcut(key, handler, modifiers)
CallAddShortcut ==
    \E shortcut \in Shortcuts :
        /\ ops < MaxEvents
        /\ tool' = tool
        /\ listeners' =
              IF tool.isInitialized
              THEN [listeners EXCEPT
                      !.keydown = AddShortcut(@, shortcut.key, shortcut.handler,
                                              shortcut.modifiers),
                      !.shortcuts = Append(@, shortcut),
                      !.called = <<>>]
              ELSE listeners
        /\ ToolEffect(Op("addShortcut", NoPivot, <<shortcut>>),
                      Guarded(tool, W, Returns(Done(W), NoGraphic)))

\* a click on a button that has a listener
ButtonClick ==
    \E id \in listeners.click :
        /\ ops < MaxEvents
        /\ tool' = tool
        /\ ToolStep(Op("click", NoPivot, <<id>>),
                    Returns(Click(id, W, dom, ui.ready), NoGraphic))

\* the pointer is released somewhere in the window
WindowPointerUp ==
    /\ ops < MaxEvents
    /\ {"pointerup", "mouseup"} \cap listeners.window # {}
    /\ tool' = tool
    /\ ToolStep(Op("pointerup", NoPivot, <<>>),
                Returns(PointerUpListener(W, ui.ready), NoGraphic))

\* the page with every button, after its PixiTool has been initialized
InitEvents ==
    /\ state = Initialized.sm.state
    /\ subscribers = Initialized.sm.subscribers
    /\ stage = Initialized.stage
    /\ calls = <<>>
    /\ escaped = FALSE
    /\ lastOp = Op("init", NoPivot, <<>>)
    /\ before = [state |-> Initialized.sm.state,
                 subscribers |-> Initialized.sm.subscribers,
                 stage |-> Initialized.stage,
                 cancelled |-> {}, op |-> "none",
                 prev |-> [viewport |-> Viewport(Int2Q(0), Int2Q(0), Int2Q(1)),
                           pivot |-> NoPivot]]
    /\ ops = 0
    /\ regTime = [cb \in Callbacks |-> 0]
    /\ cancelled = {}
    /\ original = PixiApp
    /\ drag = NoDrag
    /\ GeometryIdle
    /\ tool = [isInitialized |-> TRUE, pending |-> FALSE]
    /\ dom = ClickButtons \cup {"pixi-container"}
    /\ scene = Initialized.scene
    /\ ui = [NoCall EXCEPT !.ready = TRUE]
    /\ listeners = Registered(dom)

\* the window is resized
ResizeEvent ==
    /\ ops < MaxEvents
    /\ "resize" \in listeners.window
    /\ WindowResize

\* destroy() is called
CallDestroy ==
    /\ ops < MaxEvents
    /\ DoDestroy

NextEvents ==
    \/ KeyDown
    \/ CallAddShortcut
    \/ ButtonClick
    \/ WindowPointerUp
    \/ ResizeEvent
    \/ CallDestroy

SpecEvents == InitEvents /\ [][NextEvents]_vars

(***************************************************************************)
(* Properties.                                                             *)
(***************************************************************************)
ZoomOps == {"handleWheel", "zoomIn", "zoomOut", "zoomTo"}

\* the world coordinate of screen coordinate p under offset and scale
World(p, offset, scale) == QDiv(QSub(p, offset), scale)

Range(f) == {f[i] : i \in DOMAIN f}

\* the number of times callback cb was invoked in call c
Invocations(c, cb) ==
    Cardinality({j \in 1..Len(c.invoked) : c.invoked[j].callback = cb})

\* the callbacks registered when call c began and still when the operation ended
RegisteredThroughout(c) == Range(c.registered) \cap Range(subscribers)

\* C1: after any sequence of ViewportController operations from the initial
\* viewport, MIN_SCALE <= viewport.scale <= MAX_SCALE.
C1_ScaleWithinBounds ==
    /\ QLe(MIN_SCALE, state.viewport.scale)
    /\ QLe(state.viewport.scale, MAX_SCALE)

\* C1 witness: zoomIn() asked for more than MAX_SCALE and was clamped to it
C1_Witness ==
    /\ lastOp.name = "zoomIn"
    /\ QLt(MAX_SCALE, QMul(before.state.viewport.scale, ZOOM_IN_FACTOR))
    /\ state.viewport.scale = MAX_SCALE

\* C2: every zoom about a screen pivot p (handleWheel, zoomIn, zoomOut,
\* zoomTo), clamped or not, leaves the world point under p where it was:
\* (p - offset) / scale before the call equals (p - offset') / scale' after it.
C2_PivotInvariant ==
    lastOp.name \in ZoomOps =>
        /\ World(lastOp.pivot[1], before.state.viewport.x, before.state.viewport.scale)
             = World(lastOp.pivot[1], state.viewport.x, state.viewport.scale)
        /\ World(lastOp.pivot[2], before.state.viewport.y, before.state.viewport.scale)
             = World(lastOp.pivot[2], state.viewport.y, state.viewport.scale)

\* C2 witness: a wheel notch off the canvas centre, on a panned viewport, whose
\* scale was clamped at MAX_SCALE
C2_Witness ==
    /\ lastOp.name = "handleWheel"
    /\ lastOp.pivot # <<Q(CanvasWidth, 2), Q(CanvasHeight, 2)>>
    /\ before.state.viewport.x # Int2Q(0)
    /\ QLt(MAX_SCALE, QMul(before.state.viewport.scale, WHEEL_ZOOM_IN_FACTOR))
    /\ state.viewport.scale = MAX_SCALE

\* C5: reset() sets the viewport to exactly x = 0, y = 0, scale = DEFAULT_SCALE
\* from any state, and a second reset() leaves the viewport as the first left it.
C5_ResetExactAndIdempotent ==
    lastOp.name = "reset" =>
        /\ state.viewport = Viewport(Int2Q(0), Int2Q(0), DEFAULT_SCALE)
        /\ before.op = "reset" => state.viewport = before.state.viewport

\* C5 witness: reset() on a viewport that was zoomed and moved
C5_Witness ==
    /\ lastOp.name = "reset"
    /\ before.state.viewport.scale # DEFAULT_SCALE
    /\ before.state.viewport.x # Int2Q(0)
    /\ before.state.viewport.y # Int2Q(0)

\* C8: on every update the subscribers are invoked in the order in which they
\* were registered.
C8_RegistrationOrder ==
    \A i \in 1..Len(calls) :
        \A j, k \in 1..Len(calls[i].invoked) :
            j < k => regTime[calls[i].invoked[j].callback]
                       < regTime[calls[i].invoked[k].callback]

\* C8 witness: an update that reached three subscribers, after an earlier
\* unsubscription
C8_Witness ==
    /\ \E i \in 1..Len(calls) : Len(calls[i].invoked) >= 3
    /\ \E cb \in Callbacks : regTime[cb] > 0 /\ cb \notin Range(subscribers)

\* C9: when the clamped new scale equals the current scale (zoomIn or wheel-in
\* at MAX_SCALE, zoomOut or wheel-out at MIN_SCALE) the zoom changes neither
\* offset nor scale, makes no setState call and notifies no subscriber.
C9_NoOpAtBound ==
    LET scale == before.state.viewport.scale
        same == \/ lastOp.name = "zoomIn" /\ ZoomInScale(scale) = scale
                \/ lastOp.name = "zoomOut" /\ ZoomOutScale(scale) = scale
                \/ lastOp.name = "handleWheel"
                     /\ WheelScale(scale, lastOp.args[1]) = scale
    IN  same => /\ state = before.state
                /\ stage = before.stage
                /\ calls = <<>>

\* C9 witness: zoomIn() on a moved viewport at MAX_SCALE, with a subscriber
C9_Witness ==
    /\ lastOp.name = "zoomIn"
    /\ before.state.viewport.scale = MAX_SCALE
    /\ before.state.viewport.x # Int2Q(0)
    /\ subscribers # <<>>

\* C10: pan(dx, dy) sets the offset to (x + dx, y + dy) without clamping and
\* leaves the scale and every non-viewport field of the state unchanged.
C10_PanAddsDeltas ==
    lastOp.name = "pan" =>
        state = [before.state EXCEPT
                   !.viewport = Viewport(QAdd(before.state.viewport.x, lastOp.args[1]),
                                         QAdd(before.state.viewport.y, lastOp.args[2]),
                                         before.state.viewport.scale)]

\* C10 witness: a pan that takes the offset off the canvas, on a zoomed viewport
\* in the middle of a drag
C10_Witness ==
    /\ lastOp.name = "pan"
    /\ QLt(state.viewport.x, Int2Q(0))
    /\ before.state.viewport.scale # DEFAULT_SCALE
    /\ before.state.isDragging

\* the scale zoomTo(scale) moves to
Clamped(scale) == MathMax(MIN_SCALE, MathMin(MAX_SCALE, scale))

\* C11: a zoom about a pivot from scale s0 to s1 followed by zoomTo(s0) about
\* the same pivot restores the viewport the first zoom started from, scale and
\* offset; so zooming by 1.2 about (400, 300) from the initial viewport and
\* back to scale 1 gives scale 1 and offset (0, 0).
C11_ZoomRoundTrip ==
    ( /\ lastOp.name = "zoomTo"
      /\ before.op \in ZoomOps
      /\ before.prev.pivot = lastOp.pivot
      /\ Clamped(lastOp.args[1]) = before.prev.viewport.scale )
    => state.viewport = before.prev.viewport

\* C11 witness: from the initial viewport, zoomIn() (factor 1.2 about the
\* canvas centre (400, 300)) took the scale to 1.2 and the offset to (-80, -60),
\* and zoomTo(1) about the same centre followed
C11_Witness ==
    /\ lastOp.name = "zoomTo"
    /\ lastOp.pivot = <<Int2Q(400), Int2Q(300)>>
    /\ lastOp.args[1] = Int2Q(1)
    /\ before.op = "zoomIn"
    /\ before.prev.viewport = Viewport(Int2Q(0), Int2Q(0), Int2Q(1))
    /\ before.state.viewport = Viewport(Int2Q(-80), Int2Q(-60), Q(6, 5))
    /\ state.viewport = Viewport(Int2Q(0), Int2Q(0), Int2Q(1))

\* C11 witness for a clamped zoom: the first zoom asked for more than MAX_SCALE
C11_WitnessClamped ==
    /\ lastOp.name = "zoomTo"
    /\ before.op = "zoomTo"
    /\ before.prev.pivot = lastOp.pivot
    /\ before.state.viewport.scale = MAX_SCALE
    /\ before.prev.viewport.x # Int2Q(0)
    /\ state.viewport = before.prev.viewport

\* the handlers of user input events
InputOps == {"handleWheel", "handlePointerDown", "handlePointerMove", "handlePointerUp"}

\* C12: each user input event makes at most one setState call, and no
\* subscriber of a pointer move is handed a state whose offset has moved while
\* lastPointerPosition still holds the previous pointer position.
C12_OneUpdatePerInputEvent ==
    lastOp.name \in InputOps =>
        /\ Len(calls) <= 1
        /\ lastOp.name = "handlePointerMove" =>
              \A i \in 1..Len(calls) : \A j \in 1..Len(calls[i].invoked) :
                 LET newState == calls[i].invoked[j].newState
                 IN  (\/ newState.viewport.x # before.state.viewport.x
                      \/ newState.viewport.y # before.state.viewport.y)
                     => newState.lastPointerPosition
                          = Point(lastOp.args[1], lastOp.args[2])

\* q rounded to one decimal place, in tenths (q >= 0)
Tenths(q) == (20 * q[1] + q[2]) \div (2 * q[2])

\* C14: calculatePolygonCenter throws for every list of fewer than 3 points and
\* calculateGeometricCenter throws for the empty list; a call that throws
\* returns no point.
C14_DegenerateInputThrows ==
    /\ (polygonCenter # NotCalled /\ Len(points) < 3) => polygonCenter.threw
    /\ (geometricCenter # NotCalled /\ Len(points) = 0) => geometricCenter.threw
    /\ \A r \in {polygonCenter, geometricCenter} :
          (r # NotCalled /\ r.threw) => DOMAIN r = {"threw", "message"}

\* C14 witness: both functions were called on a list of two points; the
\* centroid threw and the vertex average returned a point
C14_Witness ==
    /\ Len(points) = 2
    /\ polygonCenter # NotCalled /\ polygonCenter.threw
    /\ geometricCenter # NotCalled /\ ~geometricCenter.threw

\* C14 witness for the empty list: both functions threw
C14_WitnessEmpty ==
    /\ points = <<>>
    /\ polygonCenter # NotCalled /\ polygonCenter.threw
    /\ geometricCenter # NotCalled /\ geometricCenter.threw

\* C15: for 3 or more points whose shoelace area is below 1e-10 in absolute
\* value, calculatePolygonCenter returns the x and y calculateGeometricCenter
\* returns on the same points; for every other list of 3 or more points it
\* returns the first moments divided by 6 * area.
C15_CollinearFallback ==
    (polygonCenter # NotCalled /\ Len(points) >= 3) =>
        LET area == ShoelaceArea(points)
            sums == Shoelace(points, 1, [area |-> Int2Q(0), centerX |-> Int2Q(0),
                                         centerY |-> Int2Q(0)])
        IN  /\ ~polygonCenter.threw
            /\ IF AbsBelowEpsilon(area)
               THEN geometricCenter # NotCalled =>
                      /\ ~geometricCenter.threw
                      /\ polygonCenter.x = geometricCenter.x
                      /\ polygonCenter.y = geometricCenter.y
               ELSE /\ polygonCenter.x = QDiv(sums.centerX, QMul(Int2Q(6), area))
                    /\ polygonCenter.y = QDiv(sums.centerY, QMul(Int2Q(6), area))

\* C15 witness: three distinct collinear points, both functions called
C15_Witness ==
    /\ points = <<QPoint(0, 2), QPoint(2, 2), QPoint(1, 2)>>
    /\ polygonCenter = Returned(Int2Q(1), Int2Q(2))
    /\ geometricCenter = Returned(Int2Q(1), Int2Q(2))

\* C15 witness for the other branch: a triangle of area 2
C15_WitnessArea ==
    /\ points = <<QPoint(0, 0), QPoint(2, 0), QPoint(0, 2)>>
    /\ polygonCenter = Returned(Q(2, 3), Q(2, 3))

\* C16 as stated: for DEFAULT_POLYGON_POINTS calculatePolygonCenter returns
\* x = 47.8 and y = 47.0 to one decimal place.
C16_DefaultPolygonAsStated ==
    (points = DEFAULT_POLYGON_POINTS /\ polygonCenter # NotCalled) =>
        /\ ~polygonCenter.threw
        /\ Tenths(polygonCenter.x) = 478
        /\ Tenths(polygonCenter.y) = 470

\* C16 amended: for DEFAULT_POLYGON_POINTS calculatePolygonCenter returns
\* (6320/129, 2065/43), the centroid of the polygon of area 4300, which is
\* x = 49.0 and y = 48.0 to one decimal place.
C16_DefaultPolygonCenter ==
    (points = DEFAULT_POLYGON_POINTS /\ polygonCenter # NotCalled) =>
        /\ polygonCenter = Returned(Q(6320, 129), Q(2065, 43))
        /\ ShoelaceArea(points) = Int2Q(4300)
        /\ Tenths(polygonCenter.x) = 490
        /\ Tenths(polygonCenter.y) = 480

\* C16 witness: calculatePolygonCenter was called on DEFAULT_POLYGON_POINTS
C16_Witness ==
    /\ points = DEFAULT_POLYGON_POINTS
    /\ polygonCenter # NotCalled
    /\ ~polygonCenter.threw

\* the graphic, measured in the coordinates of the stage in which it is
\* placed, fills ratio of the canvas in one dimension, exceeds it in none and
\* sits at the canvas centre
FitsContainer(graphic, ratio) ==
    LET width == QMul(graphic.box.width, graphic.scale)
        height == QMul(graphic.box.height, graphic.scale)
        targetWidth == QMul(Screen.width, ratio)
        targetHeight == QMul(Screen.height, ratio)
    IN  /\ QLe(width, targetWidth)
        /\ QLe(height, targetHeight)
        /\ width = targetWidth \/ height = targetHeight
        /\ graphic.x = QDiv(Screen.width, Int2Q(2))
        /\ graphic.y = QDiv(Screen.height, Int2Q(2))

\* C13: after every call of scaleAndCenter the factory fits: its bounding box
\* is at most 0.9 of the canvas in width and in height, with equality in one
\* of them, and it sits at the canvas centre.  That is so for the factory
\* createFactory returns and for the current factory after toggleFactory()
\* and after reset(), whatever the scale it had before.
C13_ScaleAndCenterFits ==
    /\ (lastOp.name = "createFactory" /\ ui.handle # NoGraphic)
          => FitsContainer(ui.handle, CONTAINER_SCALE_RATIO)
    /\ (/\ lastOp.name \in {"ui.toggleFactory", "ui.reset"}
        /\ ui.thrown = "none"
        /\ state.currentShape = "factory")
          => FitsContainer(scene.graphic, CONTAINER_SCALE_RATIO)

\* C13 on creation alone: the factory createFactory returns fits
C13_FitsOnCreation ==
    (lastOp.name = "createFactory" /\ ui.handle # NoGraphic)
        => FitsContainer(ui.handle, CONTAINER_SCALE_RATIO)

\* C17: createPolygon(points) and createFactory({ points }) with fewer than 3
\* points throw to the caller and return no graphic.
C17_FewVerticesFail ==
    (lastOp.name \in {"createPolygon", "createFactory"} /\ Len(lastOp.args[1]) < 3)
        => (ui.thrown # "none" /\ ui.handle = NoGraphic)

\* C17 for the polygon alone: createPolygon(points) with fewer than 3 points
\* throws and returns no graphic
C17_PolygonFails ==
    (lastOp.name = "createPolygon" /\ Len(lastOp.args[1]) < 3)
        => (ui.thrown = "Error" /\ ui.handle = NoGraphic)

\* C18: with a button element missing from the document, toggleFactory() and
\* reset() do not throw, and an operation that stops early leaves the
\* container and the scene as they were.
C18_MissingButtonIsSkipped ==
    lastOp.name \in {"ui.toggleFactory", "ui.reset"} =>
        /\ ui.thrown = "none"
        /\ ui.thrown # "none" => (state = before.state /\ scene = ui.scene)

\* C18 for rotate-btn alone: without it toggleFactory() and reset() return
C18_RotateButtonIsOptional ==
    (lastOp.name \in {"ui.toggleFactory", "ui.reset"} /\ Buttons \ dom = {"rotate-btn"})
        => ui.thrown = "none"

\* C19: a frame of the ticker, when isRotating is true and there is a current
\* graphic, adds exactly DEFAULT_ROTATION_SPEED to the rotation of the graphic
\* and gives every marker that is shown the rotation of the graphic; any other
\* frame changes nothing in the scene.  No frame changes the container.
C19_FrameRotates ==
    lastOp.name = "animate" =>
        /\ state = before.state
        /\ IF before.state.isRotating /\ ui.scene.graphic # NoGraphic
           THEN /\ scene.graphic.rotation =
                       QAdd(ui.scene.graphic.rotation, Q(5, 100))
                /\ scene.graphic = [ui.scene.graphic EXCEPT
                                       !.rotation = scene.graphic.rotation]
                /\ Shown(scene.centerDot) = Shown(ui.scene.centerDot)
                /\ Shown(scene.geometricCenterDot) = Shown(ui.scene.geometricCenterDot)
                /\ Shown(scene.centerDot) =>
                       scene.centerDot.rotation = scene.graphic.rotation
                /\ Shown(scene.geometricCenterDot) =>
                       scene.geometricCenterDot.rotation = scene.graphic.rotation
           ELSE scene = ui.scene

\* C19 witness: the second frame of a rotating polygon whose centre marker is
\* shown: the graphic and the marker are at 0.1
C19_Witness ==
    /\ lastOp.name = "animate"
    /\ state.isRotating
    /\ Shown(scene.centerDot)
    /\ scene.graphic.rotation = Q(1, 10)
    /\ scene.centerDot.rotation = Q(1, 10)

\* C19 witness for a frame without rotation: the graphic was turned by a frame,
\* the rotation was switched off, and the next frame left it where it was
C19_WitnessIdle ==
    /\ lastOp.name = "animate"
    /\ ~state.isRotating
    /\ scene.graphic # NoGraphic
    /\ scene.graphic.rotation = Q(5, 100)

GuardedOps == {"createPolygon", "toggleRotation", "zoom", "reset"}

C20_WitnessPending ==
    /\ lastOp.name \in GuardedOps
    /\ tool.pending
    /\ ui.thrown = "NotInitialized"

\* C20 witness for a failed init(): no container element
C20_WitnessFailedInit ==
    /\ lastOp.name = "init"
    /\ ui.thrown = "Error"
    /\ ~tool.isInitialized

\* C20 witness for a call that the guard lets through
C20_WitnessReady ==
    /\ lastOp.name = "toggleRotation"
    /\ ui.ready
    /\ ui.thrown = "none"
    /\ state.isRotating

\* C20 witness for destroy() before init()
C20_WitnessIdleDestroy ==
    /\ lastOp.name = "destroy"
    /\ ui.tool = Constructed
    /\ ops = 1

\* C3: each setState(partial) call invokes every registered subscriber exactly
\* once, with oldState the fields before the merge and newState those fields
\* overridden by partial.
C3_EverySubscriberOnce ==
    /\ calls # <<>> => calls[1].oldState = before.state
    /\ \A i \in 1..Len(calls) :
          LET c == calls[i]
          IN  /\ c.newState = Spread(c.oldState, c.partial)
              /\ \A cb \in Callbacks : Invocations(c, cb) <= 1
              /\ \A cb \in RegisteredThroughout(c) : Invocations(c, cb) = 1
              /\ \A j \in 1..Len(c.invoked) :
                    /\ c.invoked[j].oldState = c.oldState
                    /\ c.invoked[j].newState = c.newState

\* C4: when a subscriber throws during a notification, the exception does not
\* reach the caller of setState, the merged state stays applied and every
\* other registered subscriber is still invoked for that update.
C4_ThrowIsContained ==
    \A i \in 1..Len(calls) :
        LET c == calls[i]
        IN  (\E j \in 1..Len(c.invoked) : c.invoked[j].caught) =>
                /\ ~escaped
                /\ calls[Len(calls)].newState = state
                /\ c.newState = Spread(c.oldState, c.partial)
                /\ \A cb \in RegisteredThroughout(c) : Invocations(c, cb) >= 1

\* C6: after every operation that mutates the viewport state, the stage
\* position is (viewport.x, viewport.y) and the stage scale is viewport.scale.
C6_StageFollowsViewport ==
    stage = Viewport(state.viewport.x, state.viewport.y, state.viewport.scale)

\* C7: once the closure returned by subscribe(cb) has been called, no later
\* setState invokes cb, and all other registered subscribers keep being
\* notified.
C7_UnsubscribedStaysSilent ==
    \A i \in 1..Len(calls) :
        LET c == calls[i]
        IN  /\ \A j \in 1..Len(c.invoked) :
                  c.invoked[j].callback \notin before.cancelled
            /\ cancelled # {} =>
                  \A cb \in RegisteredThroughout(c) : Invocations(c, cb) >= 1

\* an INPUT, TEXTAREA or SELECT element or an element with contentEditable
\* set
InputOrEditable(element) ==
    \/ element.tagName = "INPUT"
    \/ element.tagName = "TEXTAREA"
    \/ element.tagName = "SELECT"
    \/ element.contentEditable = "true"

\* C21: a key pressed while an INPUT, TEXTAREA, SELECT or contentEditable
\* element has the focus changes nothing of the container (viewport,
\* rotation, shape and marker flags), of the stage or of the display objects,
\* and calls no handler of a custom shortcut
C21_FocusedInputIgnoresKeys ==
    (lastOp.name = "keydown" /\ InputOrEditable(lastOp.args[2])) =>
        /\ state = before.state
        /\ stage = before.stage
        /\ scene = ui.scene
        /\ listeners.called = <<>>
        /\ ui.thrown = "none"

\* the key of a custom shortcut is pressed with the focus on such an element
C21_Witness ==
    /\ lastOp.name = "keydown"
    /\ InputOrEditable(lastOp.args[2])
    /\ Len(listeners.keydown) = 1
    /\ listeners.keydown[1].kind = "custom"
    /\ ToLowerCase(lastOp.args[1].key) = ToLowerCase(listeners.keydown[1].key)
    /\ lastOp.args[1].ctrlKey = listeners.keydown[1].modifiers.ctrl

\* a built-in shortcut is pressed with the focus on an element with
\* contentEditable set
C21_WitnessEditable ==
    /\ lastOp.name = "keydown"
    /\ lastOp.args[2] = Element("DIV", "true")
    /\ lastOp.args[1].key = "F"
    /\ Len(listeners.keydown) = 1

\* the world before the last operation
WorldBefore ==
    Modules([state |-> before.state, subscribers |-> before.subscribers],
            before.stage, ui.scene)

\* a press of the key of shortcut with the modifiers it was registered with
Matches(shortcut, event) ==
    /\ ToLowerCase(event.key) = ToLowerCase(shortcut.key)
    /\ event.ctrlKey = shortcut.modifiers.ctrl
    /\ event.shiftKey = shortcut.modifiers.shift
    /\ event.altKey = shortcut.modifiers.alt

\* C28: every shortcut added through addShortcut stays active: a matching
\* press of the key of any shortcut added so far calls its handler, and a key
\* that matches none of them does what the built-in shortcuts do.
C28_ShortcutsStayActive ==
    (/\ lastOp.name = "keydown"
     /\ ui.ready
     /\ ~InputOrEditable(lastOp.args[2])) =>
        LET event == lastOp.args[1]
            added == listeners.shortcuts
            builtIn == HandleKeyDown(WorldBefore, dom, event, lastOp.args[2])
        IN  /\ \A i \in 1..Len(added) :
                  Matches(added[i], event) =>
                      \E j \in 1..Len(listeners.called) :
                          listeners.called[j] = added[i].handler
            /\ (\A i \in 1..Len(added) : ~Matches(added[i], event)) =>
                  /\ state = builtIn.w.sm.state
                  /\ stage = builtIn.w.stage
                  /\ scene = builtIn.w.scene
                  /\ ui.thrown = builtIn.thrown

\* the events that reach the listeners of the tool
InputEvents == {"keydown", "click", "pointerup", "ui.handleResize"}

\* C29: once destroy() of an initialized tool has returned, no keyboard,
\* pointer, wheel, button-click or window-resize listener of the tool is
\* registered, and an input event changes neither the container nor the stage
\* nor the display objects, and throws nothing.
C29_DestroyRemovesHandlers ==
    (~ui.ready) =>
        /\ listeners.keydown = <<>>
        /\ listeners.canvas = {}
        /\ listeners.window = {}
        /\ listeners.click = {}
        /\ lastOp.name \in InputEvents =>
              /\ state = before.state
              /\ stage = before.stage
              /\ scene = ui.scene
              /\ ui.thrown = "none"

\* C22: after every wheel, pointer, zoom and reset event, the refactored
\* controller with its container holds the same viewport (x, y, scale) and the
\* same dragging flag as the original PixiApp fed the same events.
C22_SameAsOriginal ==
    /\ state.viewport.x = original.viewport.x
    /\ state.viewport.y = original.viewport.y
    /\ state.viewport.scale = original.viewport.scale
    /\ state.isDragging = original.isDragging

\* a drag has moved a viewport that a wheel notch had zoomed
C22_Witness ==
    /\ lastOp.name = "handlePointerMove"
    /\ before.state.isDragging
    /\ state.viewport.scale # Int2Q(1)
    /\ state.viewport # before.state.viewport
    /\ original.viewport.scale = state.viewport.scale

\* a zoom step was cut at MAX_SCALE in both
C22_WitnessClamped ==
    /\ lastOp.name = "zoomIn"
    /\ state.viewport.scale = MAX_SCALE
    /\ before.state.viewport.scale # MAX_SCALE
    /\ original.viewport.scale = original.viewport.maxScale

\* a wheel notch was cut at MIN_SCALE in both
C22_WitnessFloor ==
    /\ lastOp.name = "handleWheel"
    /\ state.viewport.scale = MIN_SCALE
    /\ before.state.viewport.scale # MIN_SCALE
    /\ original.viewport.scale = original.viewport.minScale

\* C23: a drag pans by the displacement of the pointer: when the pointer-up
\* ends a drag that began with a pointer-down on the canvas and no other
\* operation came in between, the offset has changed by the last position
\* minus the first and the scale has not changed, whether the events were
\* delivered once or twice; a pointer move outside a drag changes nothing.
C23_DragPansByDisplacement ==
    /\ (lastOp.name = "handlePointerUp" /\ drag.ended /\ ~drag.interleaved) =>
          /\ state.viewport.x =
                QAdd(drag.viewport.x, Int2Q(drag.last.x - drag.from.x))
          /\ state.viewport.y =
                QAdd(drag.viewport.y, Int2Q(drag.last.y - drag.from.y))
          /\ state.viewport.scale = drag.viewport.scale
          /\ stage = StageOf(SM)
          /\ ~state.isDragging
    /\ (lastOp.name = "handlePointerMove" /\ ~drag.active) =>
          /\ state = before.state
          /\ stage = before.stage

\* a drag of two moves, on a zoomed viewport, has ended away from where it
\* began
C23_Witness ==
    /\ lastOp.name = "handlePointerUp"
    /\ drag.ended
    /\ ~drag.interleaved
    /\ drag.last # drag.from
    /\ drag.doubled
    /\ before.op = "handlePointerMove"
    /\ state.viewport.scale # Int2Q(1)
    /\ ops = 4

\* the pointer moved with no drag under way
C23_WitnessIdleMove ==
    /\ lastOp.name = "handlePointerMove"
    /\ ~drag.active
    /\ before.op = "handlePointerUp"


\* C24: a toggleFactory() that returns has flipped currentShape between
\* 'polygon' and 'factory'; exactly one shape graphic is on the stage and it
\* is state.currentGraphic, isRotating is false, no centre marker is shown,
\* and the viewport, with the stage, is (0, 0, 1).
C24_ToggleFactoryResult ==
    (lastOp.name = "ui.toggleFactory" /\ ui.thrown = "none") =>
        /\ before.state.currentShape \in {"polygon", "factory"}
        /\ state.currentShape =
               (IF before.state.currentShape = "factory" THEN "polygon"
                ELSE "factory")
        /\ scene.graphic # NoGraphic
        /\ scene.graphic.onStage
        /\ scene.graphic.kind = state.currentShape
        /\ scene.orphans.graphic = 0
        /\ ~state.isRotating
        /\ ~state.showingCenter
        /\ ~state.showingGeometricCenter
        /\ ~Shown(scene.centerDot)
        /\ ~Shown(scene.geometricCenterDot)
        /\ scene.orphans.centerDot = 0
        /\ scene.orphans.geometricCenterDot = 0
        /\ state.viewport.x = Int2Q(0)
        /\ state.viewport.y = Int2Q(0)
        /\ state.viewport.scale = Int2Q(1)
        /\ stage = Viewport(Int2Q(0), Int2Q(0), Int2Q(1))

\* C24 witness: toggleFactory() on a rotating polygon whose centre marker is
\* shown returned with the factory
C24_Witness ==
    /\ lastOp.name = "ui.toggleFactory"
    /\ ui.thrown = "none"
    /\ before.state.isRotating
    /\ before.state.showingCenter
    /\ Shown(ui.scene.centerDot)
    /\ state.currentShape = "factory"

\* C24 witness for the way back, under a zoomed viewport: toggleFactory() on a
\* factory whose geometric centre marker is shown returned with the polygon
C24_WitnessBack ==
    /\ lastOp.name = "ui.toggleFactory"
    /\ ui.thrown = "none"
    /\ Shown(ui.scene.geometricCenterDot)
    /\ before.state.viewport.scale # Int2Q(1)
    /\ state.currentShape = "polygon"

\* the markers agree with the flags of the container, none is left behind on
\* the stage, and the geometric marker belongs to the factory
MarkersConsistent ==
    /\ state.showingCenter <=> Shown(scene.centerDot)
    /\ state.showingGeometricCenter <=> Shown(scene.geometricCenterDot)
    /\ scene.orphans.centerDot = 0
    /\ scene.orphans.geometricCenterDot = 0
    /\ state.showingGeometricCenter => state.currentShape = "factory"

\* C30: in every state reachable through UIController operations,
\* showingCenter is true iff centerDot is non-null and that marker is on the
\* stage, showingGeometricCenter is true iff geometricCenterDot is non-null and
\* on the stage, at most one marker of each kind is on the stage, and
\* showingGeometricCenter implies currentShape = 'factory'.
C30_MarkersMatchFlags == MarkersConsistent

\* C30 where every button is in the document
C30_WithEveryButton == Buttons \subseteq dom => MarkersConsistent

\* the scale fitToContent(bounds, padding) computes before it clamps it
FittedScale(bounds, padding) ==
    LET room == QSub(Int2Q(1), QMul(padding, Int2Q(2)))
    IN  MathMin(QDiv(QMul(Int2Q(CanvasWidth), room), bounds.width),
                QDiv(QMul(Int2Q(CanvasHeight), room), bounds.height))

\* the centre of bounds is at the canvas centre under viewport
CentredOnCanvas(bounds, viewport) ==
    /\ QAdd(viewport.x,
            QMul(QAdd(bounds.x, QDiv(bounds.width, Int2Q(2))), viewport.scale))
         = QDiv(Int2Q(CanvasWidth), Int2Q(2))
    /\ QAdd(viewport.y,
            QMul(QAdd(bounds.y, QDiv(bounds.height, Int2Q(2))), viewport.scale))
         = QDiv(Int2Q(CanvasHeight), Int2Q(2))

\* C25: after fitToContent(bounds, padding) for bounds of positive width and
\* height the stored scale is within [MIN_SCALE, MAX_SCALE] and the centre of
\* bounds maps to the canvas centre under the stored viewport, also when the
\* fitted scale had to be clamped.
C25_FitCentresContent ==
    ( /\ lastOp.name = "fitToContent"
      /\ QLt(Int2Q(0), lastOp.args[1].width)
      /\ QLt(Int2Q(0), lastOp.args[1].height) )
    => /\ QLe(MIN_SCALE, state.viewport.scale)
       /\ QLe(state.viewport.scale, MAX_SCALE)
       /\ CentredOnCanvas(lastOp.args[1], state.viewport)

\* C25 without the clamped fits: the scale is always in range, and a fit whose
\* scale is in range centres the content
C25_FitInRangeCentres ==
    lastOp.name = "fitToContent" =>
        /\ QLe(MIN_SCALE, state.viewport.scale)
        /\ QLe(state.viewport.scale, MAX_SCALE)
        /\ FittedScale(lastOp.args[1], lastOp.args[2]) = state.viewport.scale
              => CentredOnCanvas(lastOp.args[1], state.viewport)

\* C26: when a subscriber calls an unsubscribe closure, its own or that of
\* another subscriber, while a notification is in progress, every subscriber
\* that is still registered afterwards is invoked exactly once for that
\* update.
C26_UnsubscribeWhileNotifying ==
    \A i \in 1..Len(calls) :
        LET c == calls[i]
        IN  ClosuresCalledIn(<<c>>) # {} =>
                \A cb \in RegisteredThroughout(c) : Invocations(c, cb) = 1

\* C26 for the closure of a subscriber that no subscriber follows: "once" is
\* the last of the list and removes itself, and all the others were invoked
C26_LastRemovesItself ==
    \A i \in 1..Len(calls) :
        LET c == calls[i]
        IN  ( /\ c.registered # <<>>
              /\ c.registered[Len(c.registered)] = "once"
              /\ "remover" \notin Range(c.registered) )
            => \A cb \in RegisteredThroughout(c) : Invocations(c, cb) = 1

\* the setState calls of the last operation in which a callback called
\* setState
NestedIn(cs) ==
    \E i \in 1..Len(cs) : \E j \in 1..Len(cs[i].invoked) :
        cs[i].invoked[j].nested # <<>>

\* every subscriber that was notified in the last operation was handed the
\* current state last
LastReceivedIsCurrent ==
    \E ran \in {DeliveriesOf(calls)} :
        \A j \in 1..Len(ran) :
            ( /\ ran[j].callback \in Range(subscribers)
              /\ \A k \in (j + 1)..Len(ran) : ran[k].callback # ran[j].callback )
            => ran[j].newState = state

\* C27: when a subscriber calls setState during a notification, then once the
\* outermost setState has returned, the last newState every subscriber
\* received is the current state of the container.
C27_NestedSetStateLeavesNoStaleView ==
    NestedIn(calls) => LastReceivedIsCurrent

\* C27 for a nesting subscriber that is the last of the list
C27_NestingLastIsCurrent ==
    ( /\ NestedIn(calls)
      /\ calls[1].registered[Len(calls[1].registered)] = "nester" )
    => LastReceivedIsCurrent
====
